---- MODULE Spec2Model ----
(***************************************************************************)
(* License keys of src/test.py: the tag-length-value packing of a License  *)
(* record (packSerial / unpackSerial), License.generate (checksum, random  *)
(* padding, private-key exponentiation, base64) and ParseLicense (filter,  *)
(* base64, length window, public-key exponentiation, unpack, checks).      *)
(*                                                                         *)
(* Representation.  bytes and bytearray are sequences of 0..255.  A str is *)
(* the sequence of its Unicode code points.  None is the empty tuple <<>>  *)
(* and a present optional value v is the one-element tuple <<v>>.  A       *)
(* datetime is <<year, month, day, hour>>.  A Python int that can be large *)
(* (the operands of powmod) is the sequence of its base-256 digits, most   *)
(* significant first, without leading zeros (0 is <<>>); the decimal       *)
(* string that base10Encode builds and int() reads back stands for that    *)
(* integer.  A call that can raise returns a record [ok, val, err]: ok is  *)
(* FALSE when it raised and err is then the message (or, for an exception  *)
(* the library raises, its class).                                         *)
(***************************************************************************)
EXTENDS Integers, Sequences, FiniteSets, TLC

Ok(v) == [ok |-> TRUE, val |-> v, err |-> ""]
Err(e) == [ok |-> FALSE, val |-> <<>>, err |-> e]

None == <<>>
Some(v) == <<v>>

\* a local variable: F applied to the value assigned to it
Let(v, F(_)) == F(v)

Zeros(n) == [i \in 1..n |-> 0]
Fill(n, b) == [i \in 1..n |-> b]
\* data[a:b] of Python, 0-based, clipped to the sequence
Slice(data, a, b) ==
  LET hi == IF b > Len(data) THEN Len(data) ELSE b
  IN IF a >= hi THEN <<>> ELSE SubSeq(data, a + 1, hi)
Reverse(s) == [i \in 1..Len(s) |-> s[Len(s) + 1 - i]]

(***************************************************************************)
(* hashlib.sha1: SHA-1 over byte sequences.  A 32-bit word is four bytes,  *)
(* most significant first.                                                 *)
(***************************************************************************)
XorNib ==
  << <<0, 1, 2, 3, 4, 5, 6, 7, 8, 9, 10, 11, 12, 13, 14, 15>>,
     <<1, 0, 3, 2, 5, 4, 7, 6, 9, 8, 11, 10, 13, 12, 15, 14>>,
     <<2, 3, 0, 1, 6, 7, 4, 5, 10, 11, 8, 9, 14, 15, 12, 13>>,
     <<3, 2, 1, 0, 7, 6, 5, 4, 11, 10, 9, 8, 15, 14, 13, 12>>,
     <<4, 5, 6, 7, 0, 1, 2, 3, 12, 13, 14, 15, 8, 9, 10, 11>>,
     <<5, 4, 7, 6, 1, 0, 3, 2, 13, 12, 15, 14, 9, 8, 11, 10>>,
     <<6, 7, 4, 5, 2, 3, 0, 1, 14, 15, 12, 13, 10, 11, 8, 9>>,
     <<7, 6, 5, 4, 3, 2, 1, 0, 15, 14, 13, 12, 11, 10, 9, 8>>,
     <<8, 9, 10, 11, 12, 13, 14, 15, 0, 1, 2, 3, 4, 5, 6, 7>>,
     <<9, 8, 11, 10, 13, 12, 15, 14, 1, 0, 3, 2, 5, 4, 7, 6>>,
     <<10, 11, 8, 9, 14, 15, 12, 13, 2, 3, 0, 1, 6, 7, 4, 5>>,
     <<11, 10, 9, 8, 15, 14, 13, 12, 3, 2, 1, 0, 7, 6, 5, 4>>,
     <<12, 13, 14, 15, 8, 9, 10, 11, 4, 5, 6, 7, 0, 1, 2, 3>>,
     <<13, 12, 15, 14, 9, 8, 11, 10, 5, 4, 7, 6, 1, 0, 3, 2>>,
     <<14, 15, 12, 13, 10, 11, 8, 9, 6, 7, 4, 5, 2, 3, 0, 1>>,
     <<15, 14, 13, 12, 11, 10, 9, 8, 7, 6, 5, 4, 3, 2, 1, 0>> >>

AndNib ==
  << <<0, 0, 0, 0, 0, 0, 0, 0, 0, 0, 0, 0, 0, 0, 0, 0>>,
     <<0, 1, 0, 1, 0, 1, 0, 1, 0, 1, 0, 1, 0, 1, 0, 1>>,
     <<0, 0, 2, 2, 0, 0, 2, 2, 0, 0, 2, 2, 0, 0, 2, 2>>,
     <<0, 1, 2, 3, 0, 1, 2, 3, 0, 1, 2, 3, 0, 1, 2, 3>>,
     <<0, 0, 0, 0, 4, 4, 4, 4, 0, 0, 0, 0, 4, 4, 4, 4>>,
     <<0, 1, 0, 1, 4, 5, 4, 5, 0, 1, 0, 1, 4, 5, 4, 5>>,
     <<0, 0, 2, 2, 4, 4, 6, 6, 0, 0, 2, 2, 4, 4, 6, 6>>,
     <<0, 1, 2, 3, 4, 5, 6, 7, 0, 1, 2, 3, 4, 5, 6, 7>>,
     <<0, 0, 0, 0, 0, 0, 0, 0, 8, 8, 8, 8, 8, 8, 8, 8>>,
     <<0, 1, 0, 1, 0, 1, 0, 1, 8, 9, 8, 9, 8, 9, 8, 9>>,
     <<0, 0, 2, 2, 0, 0, 2, 2, 8, 8, 10, 10, 8, 8, 10, 10>>,
     <<0, 1, 2, 3, 0, 1, 2, 3, 8, 9, 10, 11, 8, 9, 10, 11>>,
     <<0, 0, 0, 0, 4, 4, 4, 4, 8, 8, 8, 8, 12, 12, 12, 12>>,
     <<0, 1, 0, 1, 4, 5, 4, 5, 8, 9, 8, 9, 12, 13, 12, 13>>,
     <<0, 0, 2, 2, 4, 4, 6, 6, 8, 8, 10, 10, 12, 12, 14, 14>>,
     <<0, 1, 2, 3, 4, 5, 6, 7, 8, 9, 10, 11, 12, 13, 14, 15>> >>

Xor8(a, b) == XorNib[(a \div 16) + 1][(b \div 16) + 1] * 16 + XorNib[(a % 16) + 1][(b % 16) + 1]
And8(a, b) == AndNib[(a \div 16) + 1][(b \div 16) + 1] * 16 + AndNib[(a % 16) + 1][(b % 16) + 1]
WXor(x, y) == <<Xor8(x[1], y[1]), Xor8(x[2], y[2]), Xor8(x[3], y[3]), Xor8(x[4], y[4])>>
WAnd(x, y) == <<And8(x[1], y[1]), And8(x[2], y[2]), And8(x[3], y[3]), And8(x[4], y[4])>>
\* rotate left by n bits, 0 < n < 8
RotlSmall(x, n) ==
  LET p == 2 ^ n
      q == 2 ^ (8 - n)
  IN <<((x[1] % q) * p) + (x[2] \div q), ((x[2] % q) * p) + (x[3] \div q),
       ((x[3] % q) * p) + (x[4] \div q), ((x[4] % q) * p) + (x[1] \div q)>>
Rotl30(x) == RotlSmall(<<x[4], x[1], x[2], x[3]>>, 6)
\* sum of five words modulo 2^32
WAdd5(a, b, c, d, e) ==
  LET s4 == a[4] + b[4] + c[4] + d[4] + e[4]
      s3 == a[3] + b[3] + c[3] + d[3] + e[3] + (s4 \div 256)
      s2 == a[2] + b[2] + c[2] + d[2] + e[2] + (s3 \div 256)
      s1 == a[1] + b[1] + c[1] + d[1] + e[1] + (s2 \div 256)
  IN <<s1 % 256, s2 % 256, s3 % 256, s4 % 256>>
WAdd(a, b) == WAdd5(a, b, <<0, 0, 0, 0>>, <<0, 0, 0, 0>>, <<0, 0, 0, 0>>)

ShaF(t, b, c, d) ==
  IF t < 20 THEN WXor(d, WAnd(b, WXor(c, d)))
  ELSE IF t < 40 THEN WXor(b, WXor(c, d))
  ELSE IF t < 60 THEN WXor(WAnd(b, c), WAnd(d, WXor(b, c)))
  ELSE WXor(b, WXor(c, d))
ShaK(t) ==
  IF t < 20 THEN <<90, 130, 121, 153>>
  ELSE IF t < 40 THEN <<110, 217, 235, 161>>
  ELSE IF t < 60 THEN <<143, 27, 188, 220>>
  ELSE <<202, 98, 193, 214>>

\* the next word of the message schedule
ShaNextW(w) ==
  LET t == Len(w) + 1
  IN RotlSmall(WXor(WXor(w[t - 3], w[t - 8]), WXor(w[t - 14], w[t - 16])), 1)
ShaExtend(w) == Append(w, ShaNextW(w))

\* the 80 words from the 16 of the block, four per step
RECURSIVE ShaSchedule(_)
ShaSchedule(w) ==
  IF Len(w) >= 80 THEN w
  ELSE ShaSchedule(ShaExtend(ShaExtend(ShaExtend(ShaExtend(w)))))

\* one round; s is <<a, b, c, d, e>>
ShaRound(w, t, s) ==
  LET tmp == WAdd5(RotlSmall(s[1], 5), ShaF(t, s[2], s[3], s[4]), s[5], ShaK(t), w[t + 1])
  IN <<tmp, s[1], Rotl30(s[2]), s[3], s[4]>>

\* the 80 rounds, four per step
RECURSIVE ShaRounds(_, _, _)
ShaRounds(w, t, s) ==
  IF t >= 80 \/ Len(s) # 5 THEN s
  ELSE ShaRounds(w, t + 4, ShaRound(w, t + 3, ShaRound(w, t + 2, ShaRound(w, t + 1, ShaRound(w, t, s)))))

ShaBlock(h, blk) ==
  Let(ShaRounds(ShaSchedule([i \in 1..16 |->
                  <<blk[4 * i - 3], blk[4 * i - 2], blk[4 * i - 1], blk[4 * i]>>]), 0, h),
      LAMBDA s : [i \in 1..5 |-> WAdd(h[i], s[i])])

ShaPad(msg) ==
  LET n == Len(msg)
      z == (119 - (n % 64)) % 64
      bits == n * 8
  IN msg \o <<128>> \o Zeros(z) \o <<0, 0, 0, 0>>
       \o <<(bits \div 16777216) % 256, (bits \div 65536) % 256, (bits \div 256) % 256, bits % 256>>

RECURSIVE ShaBlocks(_, _)
ShaBlocks(h, m) ==
  IF Len(m) = 0 \/ Len(h) # 5 THEN h
  ELSE ShaBlocks(ShaBlock(h, SubSeq(m, 1, 64)), SubSeq(m, 65, Len(m)))

ShaInit ==
  << <<103, 69, 35, 1>>, <<239, 205, 171, 137>>, <<152, 186, 220, 254>>,
     <<16, 50, 84, 118>>, <<195, 210, 225, 240>> >>
\* hashlib.sha1(msg).digest(): 20 bytes
sha1(msg) ==
  Let(ShaBlocks(ShaInit, ShaPad(msg)), LAMBDA h : h[1] \o h[2] \o h[3] \o h[4] \o h[5])

(***************************************************************************)
(* base64.b64encode / base64.b64decode over code points.  b64decode is the *)
(* non-validating decoder of the standard library: characters outside the  *)
(* alphabet are skipped, '=' ends the input once it completes a quad, and  *)
(* an incomplete quad at the end raises binascii.Error.                    *)
(***************************************************************************)
B64Char(v) ==
  IF v < 26 THEN 65 + v
  ELSE IF v < 52 THEN 97 + (v - 26)
  ELSE IF v < 62 THEN 48 + (v - 52)
  ELSE IF v = 62 THEN 43 ELSE 47
\* 0..63 for a character of the alphabet, 64 for '=', 99 for any other
B64Index(c) ==
  IF c >= 65 /\ c <= 90 THEN c - 65
  ELSE IF c >= 97 /\ c <= 122 THEN c - 97 + 26
  ELSE IF c >= 48 /\ c <= 57 THEN c - 48 + 52
  ELSE IF c = 43 THEN 62
  ELSE IF c = 47 THEN 63
  ELSE IF c = 61 THEN 64 ELSE 99

b64encode(data) ==
  LET n == Len(data)
      Byte(i) == IF i <= n THEN data[i] ELSE 0
      Sextet(g, k) ==
        LET b0 == Byte(3 * g + 1)
            b1 == Byte(3 * g + 2)
            b2 == Byte(3 * g + 3)
        IN CASE k = 0 -> b0 \div 4
             [] k = 1 -> (b0 % 4) * 16 + (b1 \div 16)
             [] k = 2 -> (b1 % 16) * 4 + (b2 \div 64)
             [] k = 3 -> b2 % 64
  IN [j \in 1..(4 * ((n + 2) \div 3)) |->
        LET g == (j - 1) \div 4
            k == (j - 1) % 4
        IN IF 3 * g + k > n THEN 61 ELSE B64Char(Sextet(g, k))]

Min(S) == CHOOSE x \in S : \A y \in S : x <= y
Max(S) == CHOOSE x \in S : \A y \in S : x >= y

\* The decoder reads the alphabet characters four at a time.  A '=' met
\* when three characters of a quad are read, or a second consecutive '='
\* when two are read, ends the input; any other '=' is skipped.
b64decode(s) ==
  LET t == SelectSeq(s, LAMBDA c : B64Index(c) <= 64)
      DataBefore(i) == Cardinality({k \in 1..(i - 1) : B64Index(t[k]) < 64})
      IsStop(i) ==
        /\ B64Index(t[i]) = 64
        /\ LET q == DataBefore(i) % 4
           IN q = 3 \/ (q = 2 /\ i > 1 /\ B64Index(t[i - 1]) = 64)
      stops == {i \in 1..Len(t) : IsStop(i)}
      cut == IF stops = {} THEN Len(t) ELSE Min(stops) - 1
      d == SelectSeq(SubSeq(t, 1, cut), LAMBDA c : B64Index(c) < 64)
      m == Len(d)
      V(k) == B64Index(d[k])
      n == (m \div 4) * 3 + (IF m % 4 = 2 THEN 1 ELSE IF m % 4 = 3 THEN 2 ELSE 0)
  IN IF \E i \in 1..Len(s) : s[i] > 127 THEN Err("ValueError: non-ASCII")
     ELSE IF stops = {} /\ m % 4 # 0 THEN Err("binascii.Error")
     ELSE Ok([j \in 1..n |->
                LET g == 4 * ((j - 1) \div 3)
                    r == (j - 1) % 3
                IN CASE r = 0 -> V(g + 1) * 4 + (V(g + 2) \div 16)
                     [] r = 1 -> (V(g + 2) % 16) * 16 + (V(g + 3) \div 4)
                     [] r = 2 -> (V(g + 3) % 4) * 64 + V(g + 4)])

(***************************************************************************)
(* Large integers.  base10Encode turns bytes into the decimal string of    *)
(* the big-endian integer and powmod reads it back with int(); the model   *)
(* keeps the integer itself, as its base-256 digits without leading zeros. *)
(***************************************************************************)
StripZeros(d) ==
  LET nz == {i \in 1..Len(d) : d[i] # 0}
  IN IF nz = {} THEN <<>> ELSE SubSeq(d, Min(nz), Len(d))

base10Encode(data) == StripZeros(data)

base10Decode(number) == IF number = <<>> THEN <<0>> ELSE number

(***************************************************************************)
(* Arithmetic behind pow(base, exponent, modulus).  Inside it a number is  *)
(* an array of digits, least significant first, of a width that is a       *)
(* multiple of 4; the carry loops handle four digits per step.             *)
(***************************************************************************)
ToLE(x, w) == [i \in 1..w |-> IF i <= Len(x) THEN x[Len(x) + 1 - i] ELSE 0]
FromLE(a) == StripZeros(Reverse(a))
Width4(n) == 4 * ((n + 3) \div 4)

\* a * m for a small m
RECURSIVE MulStep(_, _, _, _, _)
MulStep(a, i, m, carry, out) ==
  IF i > Len(a) \/ carry < 0 \/ Len(out) < 0 THEN out
  ELSE LET t1 == a[i] * m + carry
           t2 == a[i + 1] * m + (t1 \div 256)
           t3 == a[i + 2] * m + (t2 \div 256)
           t4 == a[i + 3] * m + (t3 \div 256)
       IN MulStep(a, i + 4, m, t4 \div 256, out \o <<t1 % 256, t2 % 256, t3 % 256, t4 % 256>>)
MulSmall(a, m) == MulStep(a, 1, m, 0, <<>>)

RECURSIVE AddStep(_, _, _, _, _)
AddStep(a, b, i, carry, out) ==
  IF i > Len(a) \/ carry < 0 \/ Len(out) < 0 THEN out
  ELSE LET t1 == a[i] + b[i] + carry
           t2 == a[i + 1] + b[i + 1] + (t1 \div 256)
           t3 == a[i + 2] + b[i + 2] + (t2 \div 256)
           t4 == a[i + 3] + b[i + 3] + (t3 \div 256)
       IN AddStep(a, b, i + 4, t4 \div 256, out \o <<t1 % 256, t2 % 256, t3 % 256, t4 % 256>>)
Add(a, b) == AddStep(a, b, 1, 0, <<>>)

\* a - b for a >= b; t \div 256 is 0 when the digit borrowed
RECURSIVE SubStep(_, _, _, _, _)
SubStep(a, b, i, carry, out) ==
  IF i > Len(a) \/ carry < 0 \/ Len(out) < 0 THEN out
  ELSE LET t1 == 256 + a[i] - b[i] - (1 - carry)
           t2 == 256 + a[i + 1] - b[i + 1] - (1 - (t1 \div 256))
           t3 == 256 + a[i + 2] - b[i + 2] - (1 - (t2 \div 256))
           t4 == 256 + a[i + 3] - b[i + 3] - (1 - (t3 \div 256))
       IN SubStep(a, b, i + 4, t4 \div 256, out \o <<t1 % 256, t2 % 256, t3 % 256, t4 % 256>>)
Sub(a, b) == SubStep(a, b, 1, 1, <<>>)

Geq(a, b) ==
  LET diff == {i \in 1..Len(a) : a[i] # b[i]}
  IN diff = {} \/ a[Max(diff)] > b[Max(diff)]

AddMod(a, b, n) == Let(Add(a, b), LAMBDA s : IF Geq(s, n) THEN Sub(s, n) ELSE s)

\* a mod p for a small p, from the most significant digit down
RECURSIVE ModStep(_, _, _, _)
ModStep(a, i, p, rem) ==
  IF i < 1 \/ rem < 0 THEN rem
  ELSE LET r1 == (rem * 256 + a[i]) % p
           r2 == (r1 * 256 + a[i - 1]) % p
           r3 == (r2 * 256 + a[i - 2]) % p
       IN ModStep(a, i - 4, p, (r3 * 256 + a[i - 3]) % p)
ModSmall(a, p) == ModStep(a, Len(a), p, 0)

\* a \div p for a small p
RECURSIVE DivStep(_, _, _, _, _)
DivStep(a, i, p, rem, out) ==
  IF i < 1 \/ rem < 0 \/ Len(out) < 0 THEN out
  ELSE LET c1 == rem * 256 + a[i]
           c2 == (c1 % p) * 256 + a[i - 1]
           c3 == (c2 % p) * 256 + a[i - 2]
           c4 == (c3 % p) * 256 + a[i - 3]
       IN DivStep(a, i - 4, p, c4 % p, <<c4 \div p, c3 \div p, c2 \div p, c1 \div p>> \o out)
DivSmall(a, p) == DivStep(a, Len(a), p, 0, <<>>)

\* the value of a digit sequence (most significant first) that fits a
\* machine integer: the exponents of the model
RECURSIVE BigToInt(_, _, _)
BigToInt(x, i, acc) == IF i > Len(x) THEN acc ELSE BigToInt(x, i + 1, acc * 256 + x[i])

\* r^e mod p by repeated squaring, p below 46341; st is <<e, base, result>>
\* and the loop takes four bits of e per step
PowIter(st, p) ==
  <<st[1] \div 2, (st[2] * st[2]) % p, IF st[1] % 2 = 1 THEN (st[3] * st[2]) % p ELSE st[3]>>
RECURSIVE PowLoop(_, _)
PowLoop(st, p) ==
  IF st[1] = 0 THEN st[3]
  ELSE PowLoop(PowIter(PowIter(PowIter(PowIter(st, p), p), p), p), p)
PowSmall(r, e, p) == PowLoop(<<e, r % p, 1 % p>>, p)

RECURSIVE Concat(_, _, _)
Concat(parts, lo, hi) ==
  IF lo > hi THEN <<>>
  ELSE IF lo = hi THEN parts[lo]
  ELSE LET mid == (lo + hi) \div 2
       IN Concat(parts, lo, mid) \o Concat(parts, mid + 1, hi)

\* the sum modulo n of terms[lo..hi], each below n
RECURSIVE SumMod(_, _, _, _)
SumMod(terms, lo, hi, n) ==
  IF lo = hi THEN terms[lo]
  ELSE Let(SumMod(terms, lo, (lo + hi) \div 2, n), LAMBDA x :
       Let(SumMod(terms, ((lo + hi) \div 2) + 1, hi, n), LAMBDA y :
         IF Len(x) = Len(y) THEN AddMod(x, y, n) ELSE <<>>))

(***************************************************************************)
(* The key pairs the callers hold.  Each modulus is a product of distinct  *)
(* primes p with p - 1 dividing 367567200, and the exponents satisfy       *)
(* 65537 * 100735073 = 1 modulo 367567200, so that raising to one exponent *)
(* and then to the other is the identity modulo the modulus, as for any    *)
(* RSA key pair.  The first modulus has 256 bits, the second 512.          *)
(***************************************************************************)
Primes256 ==
  <<23761, 23801, 23869, 28051, 28081, 29173, 29921, 30941, 33151, 34651,
    36721, 38611, 39313, 40801, 42841, 42901, 43759>>
Primes512 ==
  <<9829, 9901, 14281, 15121, 15601, 17551, 17851, 18481, 18701, 19891,
    20593, 21601, 22441, 23563, 23761, 23869, 24481, 24571, 25741, 28081,
    29173, 29921, 30241, 33151, 34273, 34651, 36037, 36721, 38611, 39313,
    40801, 42841, 42901, 43759, 44201>>
Modulus256 ==
  <<133, 101, 181, 72, 132, 75, 120, 106, 117, 16, 172, 213, 179, 58, 197, 45,
    218, 209, 146, 15, 138, 221, 7, 9, 83, 87, 115, 246, 126, 141, 185, 51>>
Modulus512 ==
  <<236, 200, 246, 40, 212, 38, 52, 122, 163, 126, 18, 219, 90, 102, 203, 214,
    1, 115, 202, 73, 49, 130, 197, 62, 5, 119, 16, 201, 5, 151, 10, 72,
    188, 121, 28, 81, 236, 161, 157, 49, 122, 195, 201, 93, 194, 3, 238, 26,
    33, 87, 100, 130, 118, 0, 9, 7, 92, 48, 123, 243, 252, 35, 118, 247>>

\* what the Chinese remainder theorem needs of a modulus n = ps[1]*...*ps[k]:
\* n itself, each cofactor n / ps[i], and the inverse of that cofactor
\* modulo ps[i]
CrtKey(modulus, ps) ==
  Let(MulSmall(ToLE(modulus, Width4(Len(modulus) + 1)), 1), LAMBDA n :
  Let(Concat([i \in 1..Len(ps) |-> <<DivSmall(n, ps[i])>>], 1, Len(ps)), LAMBDA cof :
    [ps |-> ps, n |-> n, cof |-> cof,
     inv |-> Concat([i \in 1..Len(ps) |->
                       <<PowSmall(ModSmall(cof[i], ps[i]), ps[i] - 2, ps[i])>>], 1, Len(ps))]))
Crt256 == CrtKey(Modulus256, Primes256)
Crt512 == CrtKey(Modulus512, Primes512)

\* the factorisation of a modulus of the model
Factors(modulus) ==
  CASE modulus = Modulus256 -> Crt256
    [] modulus = Modulus512 -> Crt512

\* pow(base, exponent, modulus) of Python for exponent > 0 and a modulus
\* of the model: the residue of base modulo each prime factor is raised to
\* the exponent, and the residues are recombined
pow(base, exponent, modulus) ==
  Let(Factors(modulus), LAMBDA key :
  Let(Len(key.ps), LAMBDA k :
  Let(BigToInt(exponent, 1, 0), LAMBDA e :
  Let(MulSmall(ToLE(base, Width4(Len(base))), 1), LAMBDA b :
  Let(Concat([i \in 1..k |-> <<ModSmall(b, key.ps[i])>>], 1, k), LAMBDA res :
  Let(Concat([i \in 1..k |-> <<PowSmall(res[i], e, key.ps[i])>>], 1, k), LAMBDA pws :
  Let(Concat([i \in 1..k |->
                <<MulSmall(key.cof[i], (pws[i] * key.inv[i]) % key.ps[i])>>], 1, k),
      LAMBDA terms :
        IF Len(b) >= 0 /\ Len(res) = k /\ Len(pws) = k /\ Len(terms) = k
        THEN FromLE(SumMod(terms, 1, k, key.n))
        ELSE <<>>)))))))

\* a variant that returns 0 for a zero modulus or exponent instead of failing
powmodZero(paramBase, paramExponent, paramModules) ==
  IF paramModules = <<>> \/ paramExponent = <<>> THEN Ok(<<>>)
  ELSE Ok(pow(paramBase, paramExponent, paramModules))

powmod(paramBase, paramExponent, paramModules) ==
  LET base == paramBase
      exponent == paramExponent
      modulus == paramModules
  IN IF modulus = <<>> THEN Err("Modulus is zero.")
     ELSE IF exponent = <<>> THEN Err("Exponent is zero.")
     ELSE Ok(pow(base, exponent, modulus))

(***************************************************************************)
(* str.encode('utf-8') and bytes.decode('utf-8').                          *)
(***************************************************************************)
Utf8Char(cp) ==
  IF cp < 128 THEN <<cp>>
  ELSE IF cp < 2048 THEN <<192 + (cp \div 64), 128 + (cp % 64)>>
  ELSE IF cp < 65536 THEN <<224 + (cp \div 4096), 128 + ((cp \div 64) % 64), 128 + (cp % 64)>>
  ELSE <<240 + (cp \div 262144), 128 + ((cp \div 4096) % 64), 128 + ((cp \div 64) % 64), 128 + (cp % 64)>>

IsSurrogate(cp) == cp >= 55296 /\ cp <= 57343

Utf8Encode(s) ==
  IF \E i \in 1..Len(s) : IsSurrogate(s[i]) THEN Err("UnicodeEncodeError")
  ELSE IF \A i \in 1..Len(s) : s[i] < 128 THEN Ok(s)
  ELSE Ok(Concat([i \in 1..Len(s) |-> Utf8Char(s[i])], 1, Len(s)))

\* bytes.decode('utf-8').  A byte is the lead byte of a 1 to 4 byte form,
\* a continuation byte, or invalid (Utf8Len 0).  The bytes decode exactly
\* when every lead byte is followed by its continuation bytes (shortest
\* form, no surrogate, at most U+10FFFF) and every other byte is a
\* continuation byte of the lead byte before it.
Utf8Len(c) ==
  IF c < 128 THEN 1
  ELSE IF c >= 194 /\ c <= 223 THEN 2
  ELSE IF c >= 224 /\ c <= 239 THEN 3
  ELSE IF c >= 240 /\ c <= 244 THEN 4
  ELSE 0
IsCont(b, i) == i <= Len(b) /\ b[i] >= 128 /\ b[i] <= 191
Utf8WellFormed(b, i) ==
  LET c == b[i]
  IN /\ \A j \in (i + 1)..(i + Utf8Len(c) - 1) : IsCont(b, j)
     /\ (c = 224 => b[i + 1] >= 160)
     /\ (c = 237 => b[i + 1] <= 159)
     /\ (c = 240 => b[i + 1] >= 144)
     /\ (c = 244 => b[i + 1] <= 143)
Utf8CodePoint(b, i) ==
  LET c == b[i]
  IN CASE Utf8Len(c) = 1 -> c
       [] Utf8Len(c) = 2 -> (c - 192) * 64 + (b[i + 1] - 128)
       [] Utf8Len(c) = 3 -> (c - 224) * 4096 + (b[i + 1] - 128) * 64 + (b[i + 2] - 128)
       [] Utf8Len(c) = 4 -> (c - 240) * 262144 + (b[i + 1] - 128) * 4096
                              + (b[i + 2] - 128) * 64 + (b[i + 3] - 128)
Utf8Decode(b) ==
  LET Valid(i) ==
        IF Utf8Len(b[i]) > 0 THEN Utf8WellFormed(b, i)
        ELSE /\ IsCont(b, i)
             /\ \E j \in (i - 3)..(i - 1) : j >= 1 /\ Utf8Len(b[j]) > i - j
      leads == SelectSeq([i \in 1..Len(b) |-> i], LAMBDA i : Utf8Len(b[i]) > 0)
  IN IF \A i \in 1..Len(b) : Valid(i)
     THEN Ok([k \in 1..Len(leads) |-> Utf8CodePoint(b, leads[k])])
     ELSE Err("UnicodeDecodeError")

(***************************************************************************)
(* datetime(year, month, day): raises ValueError outside the calendar.     *)
(***************************************************************************)
IsLeap(year) == (year % 4 = 0) /\ ((year % 100 # 0) \/ (year % 400 = 0))
DaysInMonth(year, month) ==
  IF month = 2 THEN (IF IsLeap(year) THEN 29 ELSE 28)
  ELSE IF month \in {4, 6, 9, 11} THEN 30 ELSE 31
datetime(year, month, day) ==
  IF year < 1 \/ year > 9999 THEN Err("ValueError: year out of range")
  ELSE IF month < 1 \/ month > 12 THEN Err("ValueError: month must be in 1..12")
  ELSE IF day < 1 \/ day > DaysInMonth(year, month) THEN Err("ValueError: day is out of range for month")
  ELSE Ok(<<year, month, day, 0>>)

(***************************************************************************)
(* License and Config objects.                                             *)
(***************************************************************************)
SupportBits == {128, 256, 512, 1024, 2048, 4096}

\* License(...) with the defaults of its constructor
License ==
  [name |-> <<>>, email |-> <<>>, expiration |-> None, max_build |-> None,
   hardware_id |-> None, running_time_limit |-> Some(0), user_data |-> None,
   product_code |-> <<>>, version |-> 0]

\* a variant that does not check the product code
ConfigUnchecked(algorithm, bits, private, modules, product_code) ==
  IF algorithm = <<>> \/ bits \notin SupportBits \/ private = <<>> \/ modules = <<>>
  THEN Err("Invalid configuration")
  ELSE Ok([algorithm |-> algorithm, bits |-> bits, private |-> private,
           modules |-> modules, product_code |-> product_code])
\* Config(algorithm, bits, private, modules, product_code)
Config(algorithm, bits, private, modules, product_code) ==
  IF algorithm = <<>> \/ bits \notin SupportBits \/ private = <<>> \/ modules = <<>>
       \/ product_code = <<>>
  THEN Err("Invalid configuration")
  ELSE Ok([algorithm |-> algorithm, bits |-> bits, private |-> private,
           modules |-> modules, product_code |-> product_code])

NewConfig(algorithm, bits, private, modules, product_code) ==
  Config(algorithm, bits, private, modules, product_code)

allowed == (65..90) \cup (97..122) \cup (48..57) \cup {43, 47, 61}

\* a variant that keeps every character
filterSerialKeep(serial) == serial
filterSerial(serial) == SelectSeq(serial, LAMBDA ch : ch \in allowed)

(***************************************************************************)
(* packSerial.  Each Pack* operator is one "Tag n" block of the function:  *)
(* the bytes the block writes, or the error it raises.                     *)
(***************************************************************************)
PackVersion == Ok(<<1, 1>>)

\* a variant that also refuses a text of exactly 255 bytes
PackTextTight(tag, text, tooLong) ==
  IF text = <<>> THEN Ok(<<>>)
  ELSE LET enc == Utf8Encode(text)
       IN IF ~enc.ok THEN enc
          ELSE IF Len(enc.val) >= 255 THEN Err(tooLong)
          ELSE Ok(<<tag, Len(enc.val)>> \o enc.val)
PackText(tag, text, tooLong) ==
  IF text = <<>> THEN Ok(<<>>)
  ELSE LET enc == Utf8Encode(text)
       IN IF ~enc.ok THEN enc
          ELSE IF Len(enc.val) > 255 THEN Err(tooLong)
          ELSE Ok(<<tag, Len(enc.val)>> \o enc.val)

PackName(lic) == PackText(2, lic.name, "License->Name too long")

\* a variant that writes the e-mail under the tag of the name
PackEmailAsName(lic) == PackText(2, lic.email, "License->Email too long")
PackEmail(lic) == PackText(3, lic.email, "License->Email too long")

\* a variant that accepts every even length
PackHardwareIdEven(lic) ==
  IF lic.hardware_id = None \/ lic.hardware_id[1] = <<>> THEN Ok(<<>>)
  ELSE LET hw == lic.hardware_id[1]
       IN IF Len(hw) % 2 # 0 THEN Err("Invalid HWID (not multiple of 4)")
          ELSE IF Len(hw) > 255 THEN Err("ValueError: bytes must be in range(0, 256)")
          ELSE Ok(<<4, Len(hw)>> \o hw)
PackHardwareId(lic) ==
  IF lic.hardware_id = None \/ lic.hardware_id[1] = <<>> THEN Ok(<<>>)
  ELSE LET hw == lic.hardware_id[1]
       IN IF Len(hw) % 4 # 0 THEN Err("Invalid HWID (not multiple of 4)")
          ELSE IF Len(hw) > 255 THEN Err("ValueError: bytes must be in range(0, 256)")
          ELSE Ok(<<4, Len(hw)>> \o hw)

PackDate(tag, date) ==
  IF date = None THEN Ok(<<>>)
  ELSE LET year == date[1][1]
           month == date[1][2]
           day == date[1][3]
       IN Ok(<<tag, day, month, year % 256, year \div 256>>)

PackExpiration(lic) == PackDate(5, lic.expiration)

\* a variant that rejects every value outside 0..255, the negative ones too
PackRunningTimeLimitStrict(lic) ==
  IF lic.running_time_limit # None /\ lic.running_time_limit[1] # 0
  THEN (IF lic.running_time_limit[1] > 255 \/ lic.running_time_limit[1] < 0
        THEN Err("Running time limit is incorrect")
        ELSE Ok(<<6, lic.running_time_limit[1]>>))
  ELSE Ok(<<>>)

PackRunningTimeLimit(lic) ==
  IF lic.running_time_limit # None /\ lic.running_time_limit[1] # 0 /\ lic.running_time_limit[1] > 0
  THEN (IF lic.running_time_limit[1] > 255 THEN Err("Running time limit is incorrect")
        ELSE Ok(<<6, lic.running_time_limit[1]>>))
  ELSE Ok(<<>>)

\* a variant that writes the decoded product code whatever its size
PackProductCodeAnySize(lic) ==
  IF lic.product_code = <<>> THEN Ok(<<>>)
  ELSE LET pc == b64decode(lic.product_code)
       IN IF ~pc.ok THEN Err(pc.err) ELSE Ok(<<7>> \o pc.val)
PackProductCode(lic) ==
  IF lic.product_code = <<>> THEN Ok(<<>>)
  ELSE LET pc == b64decode(lic.product_code)
       IN IF ~pc.ok THEN Err(pc.err)
          ELSE IF Len(pc.val) # 8 THEN Err("Product code has invalid size")
          ELSE Ok(<<7>> \o pc.val)

PackUserData(lic) ==
  IF lic.user_data = None \/ lic.user_data[1] = <<>> THEN Ok(<<>>)
  ELSE IF Len(lic.user_data[1]) > 255 THEN Err("User data is too long")
  ELSE Ok(<<8, Len(lic.user_data[1])>> \o lic.user_data[1])

PackMaxBuild(lic) == PackDate(9, lic.max_build)

\* the blocks in the order the function runs them: the first that raises
\* ends the call, otherwise the buffer is what they wrote, in that order
RECURSIVE WriteAll(_, _, _)
WriteAll(blocks, i, buf) ==
  IF i > Len(blocks) THEN Ok(buf)
  ELSE IF ~blocks[i].ok THEN blocks[i]
  ELSE WriteAll(blocks, i + 1, buf \o blocks[i].val)

\* a variant that writes the user data before the product code
packSerialReordered(lic) ==
  Let(WriteAll(<<PackVersion, PackName(lic), PackEmail(lic), PackHardwareId(lic),
                 PackExpiration(lic), PackRunningTimeLimit(lic), PackUserData(lic),
                 PackProductCode(lic), PackMaxBuild(lic)>>, 1, <<>>),
      LAMBDA r : IF r.ok /\ Len(r.val) = 0 THEN Err("Pack serial failed.") ELSE r)
packSerial(lic) ==
  Let(WriteAll(<<PackVersion, PackName(lic), PackEmail(lic), PackHardwareId(lic),
                 PackExpiration(lic), PackRunningTimeLimit(lic), PackProductCode(lic),
                 PackUserData(lic), PackMaxBuild(lic)>>, 1, <<>>),
      LAMBDA r : IF r.ok /\ Len(r.val) = 0 THEN Err("Pack serial failed.") ELSE r)

(***************************************************************************)
(* unpackSerial.  Indices are those of the source (0-based): data[i] of    *)
(* the source is At(data, i).                                              *)
(***************************************************************************)
At(data, i) == data[i + 1]

\* the index the padding scan stops at: the first zero byte at index >= 1,
\* or len(data) when there is none
ScanPadding(data) ==
  LET zs == {j \in 1..(Len(data) - 1) : At(data, j) = 0}
  IN IF zs # {} THEN CHOOSE j \in zs : \A k \in zs : j <= k
     ELSE IF Len(data) > 1 THEN Len(data) ELSE 1

\* a field with a length byte (tags 2, 3, 4, 8): <<payload, next index>>,
\* or IndexError when the length byte is missing
ReadSized(data, i) ==
  IF i >= Len(data) THEN Err("IndexError")
  ELSE LET length == At(data, i)
       IN Ok(<<Slice(data, i + 1, i + 1 + length), i + 1 + length>>)

\* a date field (tags 5, 9)
ReadDate(data, i, notEnough) ==
  IF i + 3 >= Len(data) THEN Err(notEnough)
  ELSE LET day == At(data, i)
           month == At(data, i + 1)
           year == At(data, i + 2) + At(data, i + 3) * 256
       IN datetime(year, month, day)

\* one iteration of the field loop, at i < len(data): Ok(<<lic, i, end>>)
\* with the record, the read index and end after it (end is -1 for None and
\* is set by the break of tag 255), or the error raised
ReadField(data, i, lic) ==
  LET tag == At(data, i)
      j == i + 1
  IN CASE tag = 1 ->
            IF j >= Len(data) THEN Err("IndexError")
            ELSE Ok(<<[lic EXCEPT !.version = At(data, j)], j + 1, -1>>)
       [] tag = 2 ->
            LET f == ReadSized(data, j)
                text == Utf8Decode(f.val[1])
            IN IF ~f.ok THEN f
               ELSE IF ~text.ok THEN text
               ELSE Ok(<<[lic EXCEPT !.name = text.val], f.val[2], -1>>)
       [] tag = 3 ->
            LET f == ReadSized(data, j)
                text == Utf8Decode(f.val[1])
            IN IF ~f.ok THEN f
               ELSE IF ~text.ok THEN text
               ELSE Ok(<<[lic EXCEPT !.email = text.val], f.val[2], -1>>)
       [] tag = 4 ->
            LET f == ReadSized(data, j)
            IN IF ~f.ok THEN f
               ELSE Ok(<<[lic EXCEPT !.hardware_id = Some(f.val[1])], f.val[2], -1>>)
       [] tag = 5 ->
            LET d == ReadDate(data, j, "Not enough data for expiration date")
            IN IF ~d.ok THEN d
               ELSE Ok(<<[lic EXCEPT !.expiration = Some(d.val)], j + 4, -1>>)
       [] tag = 6 ->
            IF j >= Len(data) THEN Err("IndexError")
            ELSE Ok(<<[lic EXCEPT !.running_time_limit = Some(At(data, j))], j + 1, -1>>)
       [] tag = 7 ->
            IF j + 8 > Len(data) THEN Err("Not enough data for product code")
            ELSE Ok(<<[lic EXCEPT !.product_code = b64encode(Slice(data, j, j + 8))], j + 8, -1>>)
       [] tag = 8 ->
            LET f == ReadSized(data, j)
            IN IF ~f.ok THEN f
               ELSE Ok(<<[lic EXCEPT !.user_data = Some(f.val[1])], f.val[2], -1>>)
       [] tag = 9 ->
            LET d == ReadDate(data, j, "Not enough data for max build date")
            IN IF ~d.ok THEN d
               ELSE Ok(<<[lic EXCEPT !.max_build = Some(d.val)], j + 4, -1>>)
       [] tag = 255 -> Ok(<<lic, j, j - 1>>)
       [] OTHER -> Err("Serial number parsing error (chunk).")

\* the field loop: Ok(<<lic, end>>) when the loop is left (end is -1 for
\* None), or the error raised inside it
RECURSIVE FieldLoop(_, _, _)
FieldLoop(data, i, lic) ==
  IF DOMAIN lic = {} THEN Err("unreachable")
  ELSE IF ~(i < Len(data)) THEN Ok(<<lic, -1>>)
  ELSE Let(ReadField(data, i, lic), LAMBDA f :
         IF ~f.ok THEN f
         ELSE IF f.val[3] # -1 THEN Ok(<<f.val[1], f.val[3]>>)
         ELSE FieldLoop(data, f.val[2], f.val[1]))

\* a variant that takes the first 4 digest bytes as they are
ChecksumForward(span) == SubSeq(sha1(span), 1, 4)
\* the 4 checksum bytes of a span: the first 4 digest bytes, reversed
Checksum(span) == Reverse(SubSeq(sha1(span), 1, 4))

\* a variant that does not compare the checksum
unpackSerialUnchecked(data) ==
  Let(ScanPadding(data), LAMBDA i :
  Let(FieldLoop(data, i + 1, License), LAMBDA loop :
    IF i = Len(data) THEN Err("Serial number parsing error (len).")
    ELSE IF ~loop.ok THEN loop
    ELSE IF loop.val[2] = -1 \/ Len(data) - loop.val[2] < 4 THEN Err("Serial number CRC error.")
    ELSE Ok(loop.val[1])))
\* a variant that reports an unknown tag as the checksum error
unpackSerialOneError(data) ==
  Let(ScanPadding(data), LAMBDA i :
  Let(i + 1, LAMBDA start :
  Let(FieldLoop(data, start, License), LAMBDA loop :
  Let(loop.val[2], LAMBDA end :
    IF i = Len(data) THEN Err("Serial number parsing error (len).")
    ELSE IF ~loop.ok /\ loop.err = "Serial number parsing error (chunk)."
      THEN Err("Serial number CRC error.")
    ELSE IF ~loop.ok THEN loop
    ELSE IF end = -1 \/ Len(data) - end < 4 THEN Err("Serial number CRC error.")
    ELSE IF Checksum(Slice(data, start, end)) # Slice(data, end + 1, end + 1 + 4)
      THEN Err("Serial number CRC error.")
    ELSE Ok(loop.val[1])))))
\* a variant that refuses a buffer that holds bytes after the checksum
unpackSerialStrict(data) ==
  Let(ScanPadding(data), LAMBDA i :
  Let(i + 1, LAMBDA start :
  Let(FieldLoop(data, start, License), LAMBDA loop :
  Let(loop.val[2], LAMBDA end :
    IF i = Len(data) THEN Err("Serial number parsing error (len).")
    ELSE IF ~loop.ok THEN loop
    ELSE IF end = -1 \/ Len(data) - end < 4 THEN Err("Serial number CRC error.")
    ELSE IF Checksum(Slice(data, start, end)) # Slice(data, end + 1, end + 1 + 4)
      THEN Err("Serial number CRC error.")
    ELSE IF Len(data) > end + 5 THEN Err("Serial number parsing error (len).")
    ELSE Ok(loop.val[1])))))

unpackSerial(data) ==
  Let(ScanPadding(data), LAMBDA i :
  Let(i + 1, LAMBDA start :
  Let(FieldLoop(data, start, License), LAMBDA loop :
  Let(loop.val[2], LAMBDA end :
    IF i = Len(data) THEN Err("Serial number parsing error (len).")
    ELSE IF ~loop.ok THEN loop
    ELSE IF end = -1 \/ Len(data) - end < 4 THEN Err("Serial number CRC error.")
    ELSE IF Checksum(Slice(data, start, end)) # Slice(data, end + 1, end + 1 + 4)
      THEN Err("Serial number CRC error.")
    ELSE Ok(loop.val[1])))))

decodeSerial(data, public, modulus, expected_length) ==
  Let(b64decode(modulus), LAMBDA tmpModules :
  Let(b64decode(public), LAMBDA tmpPublic :
  Let(powmod(base10Encode(data), base10Encode(tmpPublic.val), base10Encode(tmpModules.val)),
      LAMBDA res :
  Let(base10Decode(res.val), LAMBDA result_bytes :
    IF ~tmpModules.ok THEN tmpModules
    ELSE IF ~tmpPublic.ok THEN tmpPublic
    ELSE IF ~res.ok THEN res
    ELSE IF Len(result_bytes) < expected_length
      THEN Ok(Zeros(expected_length - Len(result_bytes)) \o result_bytes)
    ELSE Ok(result_bytes)))))

\* a variant that does not look at the version
ParseLicenseAnyVersion(serial, public, modulus, product_code, bits) ==
  Let(bits \div 8, LAMBDA bytes_len :
  Let(b64decode(filterSerial(serial)), LAMBDA tmp_serial :
  Let(decodeSerial(tmp_serial.val, public, modulus, bytes_len), LAMBDA decoded :
  Let(unpackSerial(decoded.val), LAMBDA unpacked :
    IF ~tmp_serial.ok THEN Err("Invalid serial number encoding.")
    ELSE IF ~(bytes_len - 6 <= Len(tmp_serial.val) /\ Len(tmp_serial.val) <= bytes_len + 6)
      THEN Err("Invalid length.")
    ELSE IF ~decoded.ok THEN decoded
    ELSE IF ~unpacked.ok THEN unpacked
    ELSE IF unpacked.val.product_code = <<>> THEN Err("Incomplete serial number.")
    ELSE IF unpacked.val.product_code # product_code THEN Err("Invalid product code.")
    ELSE unpacked))))
\* a variant that only refuses keys that are too long
ParseLicenseNoLowerBound(serial, public, modulus, product_code, bits) ==
  Let(bits \div 8, LAMBDA bytes_len :
  Let(b64decode(filterSerial(serial)), LAMBDA tmp_serial :
  Let(decodeSerial(tmp_serial.val, public, modulus, bytes_len), LAMBDA decoded :
  Let(unpackSerial(decoded.val), LAMBDA unpacked :
  Let(unpacked.val, LAMBDA lic :
    IF ~tmp_serial.ok THEN Err("Invalid serial number encoding.")
    ELSE IF ~(Len(tmp_serial.val) <= bytes_len + 6) THEN Err("Invalid length.")
    ELSE IF ~decoded.ok THEN decoded
    ELSE IF ~unpacked.ok THEN unpacked
    ELSE IF lic.product_code = <<>> THEN Err("Incomplete serial number.")
    ELSE IF lic.version # 1 THEN Err("Unsupported version.")
    ELSE IF lic.product_code # product_code THEN Err("Invalid product code.")
    ELSE Ok(lic))))))
\* a variant that compares the product code before it tests the version
ParseLicenseProductFirst(serial, public, modulus, product_code, bits) ==
  Let(bits \div 8, LAMBDA bytes_len :
  Let(b64decode(filterSerial(serial)), LAMBDA tmp_serial :
  Let(decodeSerial(tmp_serial.val, public, modulus, bytes_len), LAMBDA decoded :
  Let(unpackSerial(decoded.val), LAMBDA unpacked :
  Let(unpacked.val, LAMBDA lic :
    IF ~tmp_serial.ok THEN Err("Invalid serial number encoding.")
    ELSE IF ~(bytes_len - 6 <= Len(tmp_serial.val) /\ Len(tmp_serial.val) <= bytes_len + 6)
      THEN Err("Invalid length.")
    ELSE IF ~decoded.ok THEN decoded
    ELSE IF ~unpacked.ok THEN unpacked
    ELSE IF lic.product_code = <<>> THEN Err("Incomplete serial number.")
    ELSE IF lic.product_code # product_code THEN Err("Invalid product code.")
    ELSE IF lic.version # 1 THEN Err("Unsupported version.")
    ELSE Ok(lic))))))

\* a variant that reports a wrong version with the message of a wrong
\* product code
ParseLicenseOneMessage(serial, public, modulus, product_code, bits) ==
  Let(bits \div 8, LAMBDA bytes_len :
  Let(b64decode(filterSerial(serial)), LAMBDA tmp_serial :
  Let(decodeSerial(tmp_serial.val, public, modulus, bytes_len), LAMBDA decoded :
  Let(unpackSerial(decoded.val), LAMBDA unpacked :
  Let(unpacked.val, LAMBDA lic :
    IF ~tmp_serial.ok THEN Err("Invalid serial number encoding.")
    ELSE IF ~(bytes_len - 6 <= Len(tmp_serial.val) /\ Len(tmp_serial.val) <= bytes_len + 6)
      THEN Err("Invalid length.")
    ELSE IF ~decoded.ok THEN decoded
    ELSE IF ~unpacked.ok THEN unpacked
    ELSE IF lic.product_code = <<>> THEN Err("Incomplete serial number.")
    ELSE IF lic.version # 1 THEN Err("Invalid product code.")
    ELSE IF lic.product_code # product_code THEN Err("Invalid product code.")
    ELSE Ok(lic))))))
ParseLicense(serial, public, modulus, product_code, bits) ==
  Let(bits \div 8, LAMBDA bytes_len :
  Let(b64decode(filterSerial(serial)), LAMBDA tmp_serial :
  Let(decodeSerial(tmp_serial.val, public, modulus, bytes_len), LAMBDA decoded :
  Let(unpackSerial(decoded.val), LAMBDA unpacked :
  Let(unpacked.val, LAMBDA lic :
    IF ~tmp_serial.ok THEN Err("Invalid serial number encoding.")
    ELSE IF ~(bytes_len - 6 <= Len(tmp_serial.val) /\ Len(tmp_serial.val) <= bytes_len + 6)
      THEN Err("Invalid length.")
    ELSE IF ~decoded.ok THEN decoded
    ELSE IF ~unpacked.ok THEN unpacked
    ELSE IF lic.product_code = <<>> THEN Err("Incomplete serial number.")
    ELSE IF lic.version # 1 THEN Err("Unsupported version.")
    ELSE IF lic.product_code # product_code THEN Err("Invalid product code.")
    ELSE Ok(lic))))))

(***************************************************************************)
(* License.generate.  rnd holds what the calls of random.randint return:   *)
(* pad_size in 8..15, and the byte patterns the padding loops draw (the    *)
(* i-th draw of a loop is the i-th element of the pattern, cyclically).    *)
(* The result is <<outcome, record after the call>>: the call assigns      *)
(* product_code before anything can fail.                                  *)
(***************************************************************************)
Draws(pattern, n) == [i \in 1..n |-> pattern[((i - 1) % Len(pattern)) + 1]]

\* a variant that draws the padding bytes from 0..254, like the back padding
PaddingFrontAnyByte(rnd) == <<0, 2>> \o Draws(rnd.back, rnd.pad_size) \o <<0>>
\* the front padding: 0x00 0x02, pad_size non-zero bytes, 0x00
PaddingFront(rnd) == <<0, 2>> \o Draws(rnd.front, rnd.pad_size) \o <<0>>

\* a variant that appends the first four digest bytes without reversing them
WithChecksumForward(serial) == serial \o <<255>> \o SubSeq(sha1(serial), 1, 4)
\* the packed record followed by the marker 255 and the checksum
WithChecksum(serial) == serial \o <<255>> \o Checksum(serial)

\* a variant that refuses a buffer that fills the key exactly
FinalSerialTight(serial, bits, rnd) ==
  Let(PaddingFront(rnd), LAMBDA padding_front :
  Let((bits \div 8) - (Len(serial) + Len(padding_front)), LAMBDA rest :
    IF rest <= 0 THEN Err("Content is too big to fit in key")
    ELSE Ok(padding_front \o serial \o Draws(rnd.back, rest))))
\* a variant that signs whatever it assembled, with no capacity check
FinalSerialUnchecked(serial, bits, rnd) ==
  Ok(PaddingFront(rnd) \o serial
       \o Draws(rnd.back, (bits \div 8) - (Len(serial) + Len(PaddingFront(rnd)))))
\* a variant whose capacity check counts one byte more when the first
\* padding byte drawn is 128 or more
FinalSerialByByte(serial, bits, rnd) ==
  Let(PaddingFront(rnd), LAMBDA padding_front :
  Let((bits \div 8) - (Len(serial) + Len(padding_front)), LAMBDA rest :
    IF rest - (IF padding_front[3] >= 128 THEN 1 ELSE 0) < 0
      THEN Err("Content is too big to fit in key")
    ELSE Ok(padding_front \o serial \o Draws(rnd.back, rest))))
\* the buffer that is signed, or the capacity error
FinalSerial(serial, bits, rnd) ==
  Let(PaddingFront(rnd), LAMBDA padding_front :
  Let(Len(serial) + Len(padding_front), LAMBDA content_size :
  Let(bits \div 8, LAMBDA total_length :
  Let(total_length - content_size, LAMBDA rest :
    IF rest < 0 THEN Err("Content is too big to fit in key")
    ELSE Ok(padding_front \o serial \o Draws(rnd.back, rest))))))

\* a variant that does not left-pad the result of the private-key operation
SignUnpadded(final_serial, config) ==
  Let(powmod(base10Encode(final_serial), base10Encode(b64decode(config.private).val),
             base10Encode(b64decode(config.modules).val)),
      LAMBDA res_int : Ok(b64encode(base10Decode(res_int.val))))
\* the private-key operation and the base64 text of its left-padded result
Sign(final_serial, config) ==
  Let(config.bits \div 8, LAMBDA total_length :
  Let(b64decode(config.modules), LAMBDA raw_modules :
  Let(b64decode(config.private), LAMBDA raw_private :
  Let(powmod(base10Encode(final_serial), base10Encode(raw_private.val),
             base10Encode(raw_modules.val)), LAMBDA res_int :
  Let(base10Decode(res_int.val), LAMBDA result_bytes :
    IF ~raw_modules.ok THEN raw_modules
    ELSE IF ~raw_private.ok THEN raw_private
    ELSE IF ~res_int.ok THEN res_int
    ELSE IF Len(result_bytes) < total_length
      THEN Ok(b64encode(Zeros(total_length - Len(result_bytes)) \o result_bytes))
    ELSE Ok(b64encode(result_bytes)))))))

\* a variant that stores the product code only when it returns a key
generateOnSuccess(self, config, rnd) ==
  Let([self EXCEPT !.product_code = config.product_code], LAMBDA self1 :
  Let(packSerial(self1), LAMBDA serial :
  Let(FinalSerial(WithChecksum(serial.val), config.bits, rnd), LAMBDA final_serial :
  Let(Sign(final_serial.val, config), LAMBDA result_b64 :
    IF ~serial.ok THEN <<serial, self>>
    ELSE IF ~final_serial.ok THEN <<final_serial, self>>
    ELSE IF ~result_b64.ok THEN <<result_b64, self>>
    ELSE <<result_b64, self1>>))))
generate(self, config, rnd) ==
  Let([self EXCEPT !.product_code = config.product_code], LAMBDA self1 :
  Let(packSerial(self1), LAMBDA serial :
  Let(FinalSerial(WithChecksum(serial.val), config.bits, rnd), LAMBDA final_serial :
    IF ~serial.ok THEN <<serial, self1>>
    ELSE IF ~final_serial.ok THEN <<final_serial, self1>>
    ELSE <<Sign(final_serial.val, config), self1>>)))

(***************************************************************************)
(* Inputs.  Texts are sequences of code points.  The two key pairs are     *)
(* RSA key pairs in the format of the example usage: base64 of the         *)
(* big-endian bytes of the modulus and of the exponents.                   *)
(***************************************************************************)
RSA == <<82, 83, 65>>
PublicText == <<65, 81, 65, 66>>
PrivateText == <<66, 103, 69, 89, 89, 81, 61, 61>>
Modulus256Text ==
  <<104, 87, 87, 49, 83, 73, 82, 76, 101, 71, 112, 49, 69, 75, 122, 86,
    115, 122, 114, 70, 76, 100, 114, 82, 107, 103, 43, 75, 51, 81, 99, 74,
    85, 49, 100, 122, 57, 110, 54, 78, 117, 84, 77, 61>>
Modulus512Text ==
  <<55, 77, 106, 50, 75, 78, 81, 109, 78, 72, 113, 106, 102, 104, 76, 98,
    87, 109, 98, 76, 49, 103, 70, 122, 121, 107, 107, 120, 103, 115, 85, 43,
    66, 88, 99, 81, 121, 81, 87, 88, 67, 107, 105, 56, 101, 82, 120, 82,
    55, 75, 71, 100, 77, 88, 114, 68, 121, 86, 51, 67, 65, 43, 52, 97,
    73, 86, 100, 107, 103, 110, 89, 65, 67, 81, 100, 99, 77, 72, 118, 122,
    47, 67, 78, 50, 57, 119, 61, 61>>
\* base64.b64encode(b'ABCDEFGH'), the product code of the example usage
ProductCodeText == <<81, 85, 74, 68, 82, 69, 86, 71, 82, 48, 103, 61>>
\* another text that b64decode maps to the same 8 bytes (its last sextet
\* carries two spare bits that the decoder drops)
ProductCodeLoose == <<81, 85, 74, 68, 82, 69, 86, 71, 82, 48, 104, 61>>
\* base64.b64encode(b'12345678')
ProductCodeOther == <<77, 84, 73, 122, 78, 68, 85, 50, 78, 122, 103, 61>>

\* base64.b64encode(b'1234567') and base64.b64encode(b'123456789')
ProductCodeShort == <<77, 84, 73, 122, 78, 68, 85, 50, 78, 119, 61, 61>>
ProductCodeLong == <<77, 84, 73, 122, 78, 68, 85, 50, 78, 122, 103, 53>>

\* Config objects, as NewConfig returns them
ConfigOf(bits, modules, product_code) ==
  NewConfig(RSA, bits, PrivateText, modules, product_code).val
Config256 == ConfigOf(256, Modulus256Text, ProductCodeText)
Config512 == ConfigOf(512, Modulus512Text, ProductCodeText)
\* the smallest supported size
Config128 == ConfigOf(128, Modulus256Text, ProductCodeText)
\* bits that disagree with the length of the modulus
ConfigWide == ConfigOf(256, Modulus512Text, ProductCodeText)
ConfigNarrow == ConfigOf(512, Modulus256Text, ProductCodeText)
\* a product code text that is not what b64encode writes
ConfigLoose == ConfigOf(256, Modulus256Text, ProductCodeLoose)
ConfigInputs == {Config256, Config512, Config128, ConfigWide, ConfigNarrow, ConfigLoose}

\* License objects, as the constructor builds them from keyword arguments
LicenseName3 == [License EXCEPT !.name = <<97, 98, 99>>]
LicenseName4 == [License EXCEPT !.name = <<97, 98, 99, 100>>]
LicenseCaller ==
  [License EXCEPT !.running_time_limit = Some(60), !.version = 7,
                  !.product_code = ProductCodeOther]
LicenseDate == [License EXCEPT !.expiration = Some(<<2025, 12, 31, 0>>)]
LicenseEmpty ==
  [License EXCEPT !.hardware_id = Some(<<>>), !.user_data = Some(<<>>),
                  !.running_time_limit = Some(-5)]
LicenseNoLimit ==
  [License EXCEPT !.hardware_id = Some(<<1, 2, 3, 4>>), !.running_time_limit = None]
LicenseFull ==
  [License EXCEPT !.name = <<74, 233>>, !.email = <<97, 64, 98, 99>>,
                  !.hardware_id = Some(<<1, 2, 3, 4>>),
                  !.expiration = Some(<<2025, 12, 31, 0>>),
                  !.running_time_limit = Some(60),
                  !.user_data = Some(<<0, 255, 7, 1, 2, 3>>),
                  !.max_build = Some(<<2024, 2, 29, 13>>)]
LicenseFull1 == [LicenseFull EXCEPT !.user_data = Some(<<0, 255, 7, 1, 2, 3, 4>>)]
\* a hardware id of 256 bytes
LicenseLongId == [License EXCEPT !.hardware_id = Some(Fill(256, 9))]
LicenseInputs ==
  {License, LicenseName3, LicenseName4, LicenseCaller, LicenseDate, LicenseEmpty,
   LicenseNoLimit, LicenseFull, LicenseFull1, LicenseLongId}

\* what random.randint returns: pad_size = randint(8, 15), the bytes of the
\* front padding randint(1, 254), those of the back padding randint(0, 254)
PadSizes == 8..15
FillPatterns == {<<<<1>>, <<0>>>>, <<<<254, 7, 128>>, <<254, 0, 9>>>>}
RandomDraws ==
  {[pad_size |-> n, front |-> f[1], back |-> f[2]] : n \in PadSizes, f \in FillPatterns}

(***************************************************************************)
(* State.                                                                  *)
(***************************************************************************)
VARIABLES
  lic,       \* the License object generate is called on
  config,    \* the Config object
  rnd,       \* what the random source returned during the last generate
  key,       \* outcome of lic.generate(config)
  serial,    \* the text handed to ParseLicense
  parsed,    \* outcome of ParseLicense
  data,      \* the buffer handed to unpackSerial
  unpacked,  \* outcome of unpackSerial
  packed,    \* outcome of packSerial
  made,      \* the arguments and the outcome of NewConfig
  calls,     \* the generate calls that run concurrently, one per thread
  frame,     \* the locals of an unpackSerial call that runs step by step
  app,       \* the GameAutomationApp object, its threads and pending signals
  pc         \* which call was made last

vars ==
  <<lic, config, rnd, key, serial, parsed, data, unpacked, packed, made, calls, frame, app,
    pc>>

NoCall == Err("not called")
NoDraws == [pad_size |-> 0, front |-> <<>>, back |-> <<>>]

Idle ==
  /\ rnd = NoDraws
  /\ key = NoCall
  /\ serial = <<>>
  /\ parsed = NoCall
  /\ data = <<>>
  /\ unpacked = NoCall
  /\ packed = NoCall
  /\ made = NoCall
  /\ frame = <<>>
  /\ app = <<>>
  /\ calls = <<>>
  /\ pc = "start"

\* key_str = lic.generate(config)
Generate ==
  /\ pc = "start"
  /\ \E r \in RandomDraws :
       \E g \in {generate(lic, config, r)} :
          /\ rnd' = r
          /\ key' = g[1]
          /\ lic' = g[2]
          /\ serial' = g[1].val
  /\ pc' = "generated"
  /\ UNCHANGED <<config, parsed, data, unpacked, packed, made, calls, frame, app>>

\* ParseLicense(key_str, example_public, example_modules, example_product_code, config.bits)
\* on the key text the caller holds
Parse ==
  /\ pc \in {"generated", "formatted", "forged", "submitted"}
  /\ key.ok \/ pc = "submitted"
  /\ parsed' = ParseLicense(serial, PublicText, config.modules, config.product_code,
                            config.bits)
  /\ pc' = "parsed"
  /\ UNCHANGED <<lic, config, rnd, key, serial, data, unpacked, packed, made, calls, frame, app>>

Init ==
  /\ lic \in LicenseInputs
  /\ config \in ConfigInputs
  /\ Idle

Next == Generate \/ Parse

Spec == Init /\ [][Next]_vars

(***************************************************************************)
(* packSerial called directly, on records at and around its size limits.   *)
(***************************************************************************)
PackInputs ==
  {[License EXCEPT !.name = n, !.email = e, !.user_data = u, !.hardware_id = h,
                   !.product_code = p] :
     n \in {<<>>, <<97>>, Fill(255, 97), Fill(256, 97), Fill(254, 97) \o <<233>>},
     e \in {<<>>, Fill(255, 98), Fill(256, 98)},
     u \in {None, Some(Fill(255, 0)), Some(Fill(256, 0))},
     h \in {None} \cup {Some(Fill(k, 1)) : k \in {0, 4, 5, 6, 7, 8, 252, 254, 256, 257}},
     p \in {<<>>, ProductCodeText, ProductCodeShort, ProductCodeLong}}
  \cup LicenseInputs \cup {[l EXCEPT !.product_code = ProductCodeText] : l \in LicenseInputs}
  \cup {[License EXCEPT !.running_time_limit = r, !.product_code = p] :
          r \in {None} \cup {Some(v) : v \in {-256, -1, 0, 1, 255, 256, 1000}},
          p \in {<<>>, ProductCodeText, ProductCodeShort}}

\* packSerial(lic)
Pack ==
  /\ pc = "start"
  /\ packed' = packSerial(lic)
  /\ pc' = "packed"
  /\ UNCHANGED <<lic, config, rnd, key, serial, parsed, data, unpacked, made, calls, frame, app>>

PackInit ==
  /\ lic \in PackInputs
  /\ config = Config256
  /\ Idle

PackSpec == PackInit /\ [][Pack]_vars

(***************************************************************************)
(* A caller that formats the key text before handing it to ParseLicense:   *)
(* characters outside the base64 alphabet are inserted into it.            *)
(***************************************************************************)
MaxInsert == 2
\* '-', a line feed, and a character outside ASCII
FormatChars == {45, 10, 233}
FormatPositions(text) == {0, Len(text) \div 2, Len(text)}
InsertAt(text, i, ch) == SubSeq(text, 1, i) \o <<ch>> \o SubSeq(text, i + 1, Len(text))

Format ==
  /\ pc \in {"generated", "formatted"}
  /\ key.ok
  /\ Len(serial) < Len(key.val) + MaxInsert
  /\ \E ch \in FormatChars : \E i \in FormatPositions(serial) :
       serial' = InsertAt(serial, i, ch)
  /\ pc' = "formatted"
  /\ UNCHANGED <<lic, config, rnd, key, parsed, data, unpacked, packed, made, calls, frame, app>>

FormatInit ==
  /\ lic = LicenseName3
  /\ config \in {Config256, ConfigLoose}
  /\ Idle

FormatSpec == FormatInit /\ [][Generate \/ Format \/ Parse]_vars

(***************************************************************************)
(* The buffer ParseLicense hands to unpackSerial, with one byte of the     *)
(* span between the padding terminator and the marker 255 changed.         *)
(***************************************************************************)
TamperBytes == {0, 1, 4, 5, 9, 128, 255}
\* 0-based indices of the span: after the terminator, before the marker
SpanStart(buffer) == ScanPadding(buffer) + 1
SpanEnd(buffer, l) == SpanStart(buffer) + Len(packSerial(l).val)

\* the steps of ParseLicense up to the call of unpackSerial
Decode ==
  /\ pc = "generated"
  /\ key.ok
  /\ data' = decodeSerial(b64decode(filterSerial(serial)).val, PublicText, config.modules,
                          config.bits \div 8).val
  /\ pc' = "decoded"
  /\ UNCHANGED <<lic, config, rnd, key, serial, parsed, unpacked, packed, made, calls, frame, app>>

Tamper ==
  /\ pc = "decoded"
  /\ \E i \in SpanStart(data)..(SpanEnd(data, lic) - 1) :
       \E b \in TamperBytes \ {At(data, i)} :
         data' = [data EXCEPT ![i + 1] = b]
  /\ pc' = "tampered"
  /\ UNCHANGED <<lic, config, rnd, key, serial, parsed, unpacked, packed, made, calls, frame, app>>

\* unpackSerial(data)
Unpack ==
  /\ pc \in {"decoded", "tampered", "truncated"}
  /\ unpacked' = unpackSerial(data)
  /\ pc' = CASE pc = "tampered" -> "unpacked tampered"
            [] pc = "truncated" -> "unpacked truncated"
            [] OTHER -> "unpacked"
  /\ UNCHANGED <<lic, config, rnd, key, serial, parsed, data, packed, made, calls, frame, app>>

TamperInit ==
  /\ \E p \in {<<LicenseName3, Config256>>, <<LicenseCaller, Config256>>,
               <<LicenseFull, Config512>>} :
       lic = p[1] /\ config = p[2]
  /\ Idle

TamperSpec == TamperInit /\ [][Generate \/ Decode \/ Tamper \/ Unpack]_vars

(***************************************************************************)
(* The buffer handed to unpackSerial cut short: its first n bytes only.    *)
(***************************************************************************)
Truncate ==
  /\ pc = "decoded"
  /\ \E n \in 0..(Len(data) - 1) : data' = SubSeq(data, 1, n)
  /\ pc' = "truncated"
  /\ UNCHANGED <<lic, config, rnd, key, serial, parsed, unpacked, packed, made, calls, frame, app>>

TruncateSpec == TamperInit /\ [][Generate \/ Decode \/ Truncate \/ Unpack]_vars

(***************************************************************************)
(* A user who submits key texts of any length: the base64 text of n bytes, *)
(* for n around the size of the key.                                       *)
(***************************************************************************)
MaxSlack == 8

Submit ==
  /\ pc = "start"
  /\ \E n \in ((config.bits \div 8) - MaxSlack)..((config.bits \div 8) + MaxSlack) :
       \E b \in {1, 200} : serial' = b64encode(Fill(n, b))
  /\ pc' = "submitted"
  /\ UNCHANGED <<lic, config, rnd, key, parsed, data, unpacked, packed, made, calls, frame, app>>

\* among the Configs, one whose modulus "AAAA" is the integer 0
LengthInit ==
  /\ lic = License
  /\ config \in {Config256, Config512, ConfigOf(256, <<65, 65, 65, 65>>, ProductCodeText)}
  /\ Idle

LengthSpec == LengthInit /\ [][Submit \/ Parse]_vars

(***************************************************************************)
(* An issuer that holds the private key and signs a buffer whose content   *)
(* is any sequence of fields, with the checksum, padding and signing steps *)
(* of generate.                                                            *)
(***************************************************************************)
MaxFields == 2
ForgeFields ==
  {<<1, 1>>, <<1, 2>>, <<1, 0>>, <<2, 1, 65>>,
   <<7>> \o b64decode(ProductCodeText).val, <<7>> \o b64decode(ProductCodeOther).val}
RECURSIVE ForgeContents(_)
ForgeContents(n) ==
  IF n = 0 THEN {<<>>}
  ELSE ForgeContents(n - 1) \cup
       {c \o f : c \in ForgeContents(n - 1), f \in ForgeFields}
ConfigOther == ConfigOf(256, Modulus256Text, ProductCodeOther)

Forge ==
  /\ pc = "start"
  /\ \E content \in ForgeContents(MaxFields) :
     \E r \in {d \in RandomDraws : d.pad_size = 8 /\ d.front = <<1>>} :
       \E k \in {Sign(FinalSerial(WithChecksum(content), config.bits, r).val, config)} :
          /\ packed' = Ok(content)
          /\ rnd' = r
          /\ key' = k
          /\ serial' = k.val
  /\ pc' = "forged"
  /\ UNCHANGED <<lic, config, parsed, data, unpacked, made, calls, frame, app>>

ForgeInit ==
  /\ lic = License
  /\ config \in {Config256, ConfigOther, ConfigLoose}
  /\ Idle

ForgeSpec == ForgeInit /\ [][Forge \/ Parse]_vars
(***************************************************************************)
(* A user who submits texts that fail several checks of ParseLicense at    *)
(* once: signed buffers of any content, texts of any length, and either    *)
(* with the last character missing, for Configs one of which has the       *)
(* modulus 0.                                                              *)
(***************************************************************************)
\* the text is submitted without its last character
Clip ==
  /\ pc \in {"forged", "submitted"}
  /\ key.ok \/ pc = "submitted"
  /\ Len(serial) % 4 = 0
  /\ serial' = SubSeq(serial, 1, Len(serial) - 1)
  /\ pc' = "submitted"
  /\ UNCHANGED <<lic, config, rnd, key, parsed, data, unpacked, packed, made, calls, frame, app>>

OrderInit ==
  /\ lic = License
  /\ config \in {Config256, ConfigOther, ConfigOf(256, <<65, 65, 65, 65>>, ProductCodeText)}
  /\ Idle

OrderSpec == OrderInit /\ [][Forge \/ Submit \/ Clip \/ Parse]_vars

(***************************************************************************)
(* unpackSerial called on buffers a third party assembles: the front       *)
(* padding, up to MaxFields fields of tags 1 to 9 in any order, with two   *)
(* values for tags 1 and 2, the marker and the checksum, and then nothing  *)
(* or bytes of its choice.                                                 *)
(***************************************************************************)
RECURSIVE AssembleContents(_)
AssembleContents(n) ==
  IF n = 0 THEN {<<>>}
  ELSE AssembleContents(n - 1) \cup
       {c \o f : c \in AssembleContents(n - 1),
                 f \in {<<1, 1>>, <<1, 2>>, <<2, 1, 65>>, <<2, 2, 66, 67>>, <<3, 1, 68>>,
                        <<4, 4, 1, 2, 3, 4>>, <<5, 31, 12, 233, 7>>, <<6, 60>>,
                        <<7>> \o b64decode(ProductCodeText).val, <<8, 1, 9>>,
                        <<9, 29, 2, 232, 7>>}}

Assemble ==
  /\ pc = "start"
  /\ \E content \in AssembleContents(MaxFields) :
     \E r \in {d \in RandomDraws : d.pad_size = 8} :
     \E rest \in {<<>>, <<255, 1, 2, 3, 4, 0, 9>>} :
       /\ packed' = Ok(content)
       /\ rnd' = r
       /\ data' = PaddingFront(r) \o WithChecksum(content) \o rest
  /\ pc' = "decoded"
  /\ UNCHANGED <<lic, config, key, serial, parsed, unpacked, made, calls, frame, app>>

FieldsInit ==
  /\ lic = License
  /\ config = Config256
  /\ Idle

FieldsSpec == FieldsInit /\ [][Assemble \/ Unpack]_vars

(***************************************************************************)
(* unpackSerial run one loop iteration at a time, on every byte string of  *)
(* up to MaxLen bytes over a few byte values, alone and after a padding,   *)
(* and on two buffers as generate assembles them.  frame holds the locals  *)
(* of the call: the read index i, the record lic, start and end (-1 for    *)
(* None).                                                                  *)
(***************************************************************************)
MaxLen == 4
RECURSIVE Strings(_)
Strings(n) ==
  IF n = 0 THEN {<<>>}
  ELSE Strings(n - 1) \cup {w \o <<b>> : w \in Strings(n - 1), b \in {0, 1, 2, 9, 255}}

\* unpackSerial(data): lic = License(); i = 1
Call ==
  /\ pc = "start"
  /\ data' \in {head \o body : head \in {<<>>, <<0, 0>>, <<0, 2, 7, 0>>},
                               body \in Strings(MaxLen)}
               \cup {PaddingFront(r) \o WithChecksum(c) \o <<0>> :
                       r \in {d \in RandomDraws : d.pad_size = 8},
                       c \in {<<1, 1>>, <<1, 1, 2, 1, 65>>}}
  /\ frame' = [i |-> 1, lic |-> License, start |-> -1, end |-> -1]
  /\ pc' = "scan"
  /\ UNCHANGED <<lic, config, rnd, key, serial, parsed, unpacked, packed, made, calls, app>>

\* one test of the condition of the padding scan, and its body or what
\* follows the loop
Scan ==
  /\ pc = "scan"
  /\ IF frame.i < Len(data) /\ At(data, frame.i) # 0
     THEN /\ frame' = [frame EXCEPT !.i = frame.i + 1]
          /\ UNCHANGED <<unpacked, pc>>
     ELSE IF frame.i = Len(data)
     THEN /\ unpacked' = Err("Serial number parsing error (len).")
          /\ pc' = "unpacked"
          /\ UNCHANGED frame
     ELSE /\ frame' = [frame EXCEPT !.i = frame.i + 1, !.start = frame.i + 1]
          /\ pc' = "fields"
          /\ UNCHANGED unpacked
  /\ UNCHANGED <<lic, config, rnd, key, serial, parsed, data, packed, made, calls, app>>

\* a variant whose version field leaves the read index on the tag
FieldBackward ==
  /\ pc = "fields"
  /\ IF ~(frame.i < Len(data))
     THEN /\ pc' = "check"
          /\ UNCHANGED <<frame, unpacked>>
     ELSE \E f \in {ReadField(data, frame.i, frame.lic)} :
            IF ~f.ok
            THEN /\ unpacked' = f
                 /\ pc' = "unpacked"
                 /\ UNCHANGED frame
            ELSE /\ frame' = [frame EXCEPT !.lic = f.val[1],
                                           !.i = IF At(data, frame.i) = 1 THEN frame.i - 1
                                                 ELSE f.val[2],
                                           !.end = f.val[3]]
                 /\ pc' = IF f.val[3] # -1 THEN "check" ELSE "fields"
                 /\ UNCHANGED unpacked
  /\ UNCHANGED <<lic, config, rnd, key, serial, parsed, data, packed, made, calls, app>>
\* one test of the condition of the field loop, and its body
Field ==
  /\ pc = "fields"
  /\ IF ~(frame.i < Len(data))
     THEN /\ pc' = "check"
          /\ UNCHANGED <<frame, unpacked>>
     ELSE \E f \in {ReadField(data, frame.i, frame.lic)} :
            IF ~f.ok
            THEN /\ unpacked' = f
                 /\ pc' = "unpacked"
                 /\ UNCHANGED frame
            ELSE /\ frame' = [frame EXCEPT !.lic = f.val[1], !.i = f.val[2], !.end = f.val[3]]
                 /\ pc' = IF f.val[3] # -1 THEN "check" ELSE "fields"
                 /\ UNCHANGED unpacked
  /\ UNCHANGED <<lic, config, rnd, key, serial, parsed, data, packed, made, calls, app>>

\* the statements after the field loop
Check ==
  /\ pc = "check"
  /\ \E given_hash \in {Slice(data, frame.end + 1, frame.end + 1 + 4)} :
     \E rev_hash \in {IF frame.end = -1 \/ Len(data) - frame.end < 4 THEN <<>>
                      ELSE Checksum(Slice(data, frame.start, frame.end))} :
       unpacked' = IF frame.end = -1 \/ Len(data) - frame.end < 4 \/ rev_hash # given_hash
                   THEN Err("Serial number CRC error.")
                   ELSE Ok(frame.lic)
  /\ pc' = "unpacked"
  /\ UNCHANGED <<lic, config, rnd, key, serial, parsed, data, packed, made, calls, frame, app>>

\* a call that runs keeps running: the loop iterations are taken one after
\* the other, and so are the statements after the loops (Check is enabled
\* exactly when pc = "check" and leaves it, so the last conjunct is what
\* weak fairness of Check says)
StepSpec ==
  /\ FieldsInit
  /\ [][Call \/ Scan \/ Field \/ Check]_vars
  /\ WF_vars(Scan \/ Field)
  /\ []<>(pc # "check")

(***************************************************************************)
(* src/new_tool.py: the GameAutomationApp window, the AutomationThreads    *)
(* it starts and the keyboard thread that calls stop_automation.  The      *)
(* handlers of the window (the button, the queued 'stopped' signal, the    *)
(* close event) run one at a time on the GUI thread; the hotkey callback   *)
(* runs on the thread of the keyboard library and its three statements     *)
(* interleave with them; every AutomationThread runs its loop one          *)
(* statement at a time.                                                    *)
(***************************************************************************)
\* how many times the window starts an automation
MaxThreads == 3
\* len(config['positions']); toggle_automation refuses an empty list
MaxPositions == 1

\* AutomationThread(self, config, self.stop_event).start(): the thread, its
\* own Event (stop), the statement it is at, the position it is to
\* click next and how often it emitted 'stopped'
AutomationThread ==
  [at |-> "while", k |-> 0, stop |-> FALSE, emitted |-> 0]

\* GameAutomationApp.__init__; stop_event is the index of the thread whose
\* Event self.stop_event refers to (0 for None), stopped the number of
\* 'stopped' signals queued for the GUI thread, hotkey the statement the
\* keyboard thread is at
GameAutomationApp ==
  [running |-> FALSE, stop_event |-> 0, threads |-> <<>>, stopped |-> 0,
   hotkey |-> "idle", closed |-> FALSE]

\* self.stop_event.set()
SetEvent(a) ==
  IF a.stop_event = 0 THEN a
  ELSE [a EXCEPT !.threads[a.stop_event].stop = TRUE]

AppInit ==
  /\ lic = License
  /\ config = Config256
  /\ rnd = NoDraws
  /\ key = NoCall
  /\ serial = <<>>
  /\ parsed = NoCall
  /\ data = <<>>
  /\ unpacked = NoCall
  /\ packed = NoCall
  /\ made = NoCall
  /\ frame = <<>>
  /\ calls = <<>>
  /\ app = GameAutomationApp
  /\ pc = "app"

Rest == <<lic, config, rnd, key, serial, parsed, data, unpacked, packed, made, calls, frame, pc>>

\* the button: starts a thread when running is False, stops otherwise
toggle_automation ==
  /\ pc = "app" /\ ~app.closed
  /\ \/ /\ ~app.running
        /\ Len(app.threads) < MaxThreads
        /\ app' = [app EXCEPT !.threads = Append(@, AutomationThread),
                              !.stop_event = Len(app.threads) + 1,
                              !.running = TRUE]
     \/ /\ app.running
        /\ app' = [SetEvent(app) EXCEPT !.running = FALSE]
  /\ UNCHANGED Rest

\* the hotkey ctrl+shift+x: 'if self.running:' on the keyboard thread
HotkeyIf ==
  /\ pc = "app" /\ ~app.closed
  /\ app.hotkey = "idle"
  /\ app.running
  /\ app' = [app EXCEPT !.hotkey = "set"]
  /\ UNCHANGED Rest

\* 'self.stop_event.set()' on the keyboard thread
HotkeySet ==
  /\ pc = "app"
  /\ app.hotkey = "set"
  /\ app' = [SetEvent(app) EXCEPT !.hotkey = "flag"]
  /\ UNCHANGED Rest

\* 'self.running = False' on the keyboard thread
HotkeyFlag ==
  /\ pc = "app"
  /\ app.hotkey = "flag"
  /\ app' = [app EXCEPT !.running = FALSE, !.hotkey = "idle"]
  /\ UNCHANGED Rest

stop_automation == HotkeyIf \/ HotkeySet \/ HotkeyFlag

\* the slot of the 'stopped' signal, run by the GUI thread for a queued signal
on_automation_stop ==
  /\ pc = "app" /\ ~app.closed
  /\ app.stopped > 0
  /\ app' = [app EXCEPT !.stopped = @ - 1, !.running = FALSE]
  /\ UNCHANGED Rest

closeEvent ==
  /\ pc = "app" /\ ~app.closed
  /\ app' = [(IF app.running THEN SetEvent(app) ELSE app) EXCEPT !.closed = TRUE]
  /\ UNCHANGED Rest

\* 'while True:' instead of the test of the stop event
WhileTrue(th) == {[th EXCEPT !.at = "window"]}

\* 'while not self.stop_event.is_set():'
WhileTest(th) ==
  {IF th.stop THEN [th EXCEPT !.at = "finally"] ELSE [th EXCEPT !.at = "window"]}

\* window_info = self.parent.get_window_info(...): not found (log, sleep(1),
\* continue), found, or an exception, which the outer except logs
GetWindowInfo(th) ==
  {[th EXCEPT !.at = "while"], [th EXCEPT !.at = "foreground"], [th EXCEPT !.at = "finally"]}

\* win32gui.SetForegroundWindow(hwnd): returns, or raises, which the inner
\* except logs before it sleeps a second
SetForegroundWindow(th) ==
  {[th EXCEPT !.at = "positions", !.k = 0], [th EXCEPT !.at = "interval"]}

\* 'for pos in self.config['positions']:' with its 'if ...is_set(): break';
\* a position is skipped, clicked, or its click fails and is logged
Positions(th) ==
  IF th.k = MaxPositions \/ th.stop
  THEN {[th EXCEPT !.at = "interval", !.k = 0]}
  ELSE {[th EXCEPT !.k = @ + 1]}

\* 'while time.time() - start_time < interval and not ...is_set():
\* time.sleep(0.1)': sleeps again or leaves the loop
Interval(th) ==
  IF th.stop THEN {[th EXCEPT !.at = "while"]}
  ELSE {th, [th EXCEPT !.at = "while"]}

\* 'finally: self.stopped.emit()'
Finally(th) == {[th EXCEPT !.at = "done", !.emitted = @ + 1]}

\* one statement of AutomationThread.run: the thread after it
Statements(th) ==
  CASE th.at = "while" -> WhileTest(th)
    [] th.at = "window" -> GetWindowInfo(th)
    [] th.at = "foreground" -> SetForegroundWindow(th)
    [] th.at = "positions" -> Positions(th)
    [] th.at = "interval" -> Interval(th)
    [] th.at = "finally" -> Finally(th)
    [] OTHER -> {}

\* thread t executes its next statement; 'self.stopped.emit()' queues the
\* signal for the GUI thread
Run(t) ==
  /\ pc = "app"
  /\ t \in 1..Len(app.threads)
  /\ \E th \in Statements(app.threads[t]) :
       app' = [app EXCEPT !.threads[t] = th,
                          !.stopped = IF th.at = "done" THEN @ + 1 ELSE @]
  /\ UNCHANGED Rest

run == \E t \in 1..MaxThreads : Run(t)

AppNext == toggle_automation \/ stop_automation \/ on_automation_stop \/ closeEvent \/ run

AppSpec == AppInit /\ [][AppNext]_vars

\* every started thread keeps executing
RunSpec == AppSpec /\ \A t \in 1..MaxThreads : WF_vars(Run(t))

(***************************************************************************)
(* A caller that constructs the Config before it generates and verifies:   *)
(* NewConfig on arguments that are empty, unsupported, not base64, or      *)
(* base64 of the wrong size, then generate and ParseLicense with the       *)
(* object it returned.                                                     *)
(***************************************************************************)
\* among the texts: "AAAA" (three zero bytes, the integer 0) and "A" (a text
\* base64.b64decode rejects)
ConfigArguments ==
  {[algorithm |-> a, bits |-> b, private |-> p, modules |-> m, product_code |-> c] :
     a \in {<<>>, RSA},
     b \in SupportBits \cup {0, 64, 257, 8192},
     p \in {<<>>, PrivateText, <<65, 65, 65, 65>>},
     m \in {<<>>, Modulus256Text, <<65, 65, 65, 65>>, <<65>>},
     c \in {<<>>, ProductCodeText, ProductCodeShort, ProductCodeLong, <<65>>}}

\* config = NewConfig(algorithm, bits, private, modules, product_code)
Construct ==
  /\ pc = "new"
  /\ \E a \in ConfigArguments :
       \E out \in {NewConfig(a.algorithm, a.bits, a.private, a.modules, a.product_code)} :
          /\ made' = [args |-> a, out |-> out]
          /\ config' = IF out.ok THEN out.val ELSE config
          /\ pc' = IF out.ok THEN "start" ELSE "rejected"
  /\ UNCHANGED <<lic, rnd, key, serial, parsed, data, unpacked, packed, calls, frame, app>>

ConfigInit ==
  /\ lic = LicenseCaller
  /\ config = <<>>
  /\ rnd = NoDraws
  /\ key = NoCall
  /\ serial = <<>>
  /\ parsed = NoCall
  /\ data = <<>>
  /\ unpacked = NoCall
  /\ packed = NoCall
  /\ made = NoCall
  /\ frame = <<>>
  /\ app = <<>>
  /\ calls = <<>>
  /\ pc = "new"

ConfigSpec == ConfigInit /\ [][Construct \/ Generate \/ Parse]_vars

(***************************************************************************)
(* Threads of a host that call generate on the same License object with no *)
(* lock.  A thread can be preempted between the statements of generate:    *)
(* the assignment of line 314 stores into the shared object, packSerial     *)
(* reads the shared object, and everything after works on the thread's own *)
(* buffers.  calls[t] is the call of thread t: its Config, where it is, the *)
(* values its random draws return and its outcome.                         *)
(***************************************************************************)
\* self.product_code = config.product_code
Assign ==
  \E t \in DOMAIN calls :
    /\ calls[t].at = "assign"
    /\ lic' = [lic EXCEPT !.product_code = calls[t].config.product_code]
    /\ calls' = [calls EXCEPT ![t].at = "pack"]
    /\ UNCHANGED <<config, rnd, key, serial, parsed, data, unpacked, packed, made, pc, frame, app>>

\* serial = packSerial(self), and the rest of generate
Complete ==
  \E t \in DOMAIN calls :
    /\ calls[t].at = "pack"
    /\ \E r \in {d \in RandomDraws : d.pad_size \in {8, 15}} :
         calls' = [calls EXCEPT
                     ![t].at = "done",
                     ![t].rnd = r,
                     ![t].key = Let(packSerial(lic), LAMBDA s :
                                Let(FinalSerial(WithChecksum(s.val), calls[t].config.bits, r),
                                    LAMBDA final_serial :
                                  IF ~s.ok THEN s
                                  ELSE IF ~final_serial.ok THEN final_serial
                                  ELSE Sign(final_serial.val, calls[t].config)))]
    /\ UNCHANGED <<lic, config, rnd, key, serial, parsed, data, unpacked, packed, made, pc, frame, app>>

RaceInit ==
  /\ lic \in {LicenseName3, LicenseCaller}
  /\ config = Config256
  /\ rnd = NoDraws
  /\ key = NoCall
  /\ serial = <<>>
  /\ parsed = NoCall
  /\ data = <<>>
  /\ unpacked = NoCall
  /\ packed = NoCall
  /\ made = NoCall
  /\ frame = <<>>
  /\ app = <<>>
  /\ pc = "start"
  /\ \E c1 \in {Config256, ConfigOther} :
       \E c2 \in {Config256, ConfigOther} :
         calls = [t \in 1..2 |-> [config |-> IF t = 1 THEN c1 ELSE c2, at |-> "assign",
                                  rnd |-> NoDraws, key |-> NoCall]]

RaceSpec == RaceInit /\ [][Assign \/ Complete]_vars

(***************************************************************************)
(* Properties of generate followed by ParseLicense (specification Spec).   *)
(***************************************************************************)
CapacityError == Err("Content is too big to fit in key")

\* the field limits of the documentation: name, email and user_data of at
\* most 255 bytes, a hardware id whose length is a multiple of 4, a running
\* time limit of at most 255
WithinLimits(l) ==
  /\ Utf8Encode(l.name).ok /\ Len(Utf8Encode(l.name).val) <= 255
  /\ Utf8Encode(l.email).ok /\ Len(Utf8Encode(l.email).val) <= 255
  /\ l.user_data = None \/ Len(l.user_data[1]) <= 255
  /\ l.hardware_id = None \/ Len(l.hardware_id[1]) % 4 = 0
  /\ l.running_time_limit = None \/ l.running_time_limit[1] <= 255

\* the modulus is as long as the Config says and the product code is the
\* text b64encode writes for 8 bytes
SoundConfig(c) ==
  /\ Len(b64decode(c.modules).val) = c.bits \div 8
  /\ Len(b64decode(c.product_code).val) = 8
  /\ b64encode(b64decode(c.product_code).val) = c.product_code

\* bytes the signed buffer needs for this record and this padding size:
\* the packed record, marker and checksum (5), 0x00 0x02 and terminator (3)
Needed == Len(packSerial(lic).val) + 5 + 3 + rnd.pad_size

\* C1 (as stated): for every record within the field limits and every Config
\* the constructor accepts, generate returns a key and ParseLicense accepts it.
C1_AsStated ==
  /\ (pc # "start" /\ WithinLimits(lic)) => key.ok
  /\ pc = "parsed" => parsed.ok

\* C1 (amended): for a record within the field limits whose hardware id is
\* shorter than 256 bytes, and a Config whose modulus has bits/8 bytes and
\* whose product code is canonical base64 of 8 bytes, generate returns a key
\* exactly when the record fits beside the padding drawn (otherwise it raises
\* the capacity error), and ParseLicense accepts every key it returns.
C1_RoundTrip ==
  (pc # "start" /\ WithinLimits(lic) /\ lic.hardware_id # LicenseLongId.hardware_id
     /\ SoundConfig(config))
  => /\ Needed > config.bits \div 8 => key = CapacityError
     /\ Needed <= config.bits \div 8 => key.ok
     /\ pc = "parsed" => parsed.ok

C1_Witness ==
  /\ pc = "parsed" /\ parsed.ok /\ SoundConfig(config)
  /\ config.bits = 512 /\ lic.user_data # None /\ rnd.pad_size = 8

\* what a field that packSerial omits reads back as
ReadBack(field) == IF field = Some(<<>>) THEN None ELSE field
DateOf(d) == IF d = None THEN None ELSE Some(<<d[1][1], d[1][2], d[1][3], 0>>)
LimitOf(rtl) == IF rtl # None /\ rtl[1] > 0 THEN rtl ELSE Some(0)

\* C2 (as stated): the record ParseLicense returns equals, field by field,
\* the record generate was called on, dates compared by day, month and year.
C2_AsStated ==
  (pc = "parsed" /\ parsed.ok)
  => [parsed.val EXCEPT !.expiration = DateOf(@), !.max_build = DateOf(@)]
       = [lic EXCEPT !.expiration = DateOf(@), !.max_build = DateOf(@)]

\* C2 (amended): the record ParseLicense returns has the name, email and
\* product code of the record generate was called on, its expiration and
\* max_build as calendar dates, its hardware_id and user_data (None when they
\* were empty), its running_time_limit (0 when it was None or not positive),
\* and version 1 whatever the version of the record.
C2_Fields ==
  (pc = "parsed" /\ parsed.ok)
  => /\ parsed.val.name = lic.name
     /\ parsed.val.email = lic.email
     /\ parsed.val.product_code = lic.product_code
     /\ parsed.val.expiration = DateOf(lic.expiration)
     /\ parsed.val.max_build = DateOf(lic.max_build)
     /\ parsed.val.hardware_id = ReadBack(lic.hardware_id)
     /\ parsed.val.user_data = ReadBack(lic.user_data)
     /\ parsed.val.running_time_limit = LimitOf(lic.running_time_limit)
     /\ parsed.val.version = 1

C2_Witness ==
  /\ pc = "parsed" /\ parsed.ok
  /\ lic.email # <<>> /\ lic.name # <<>> /\ lic.max_build # None
  /\ parsed.val.email = lic.email

\* the record fills the key exactly with the smallest front padding (11 bytes)
ExactFit ==
  packSerial(lic).ok /\ Len(packSerial(lic).val) + 5 + 11 = config.bits \div 8
OneLarger ==
  packSerial(lic).ok /\ Len(packSerial(lic).val) + 5 + 11 = (config.bits \div 8) + 1

\* C4 (as stated): generate succeeds for a record that fits exactly with the
\* minimum front padding, and raises the capacity error for one byte more.
C4_AsStated ==
  pc # "start" => /\ ExactFit => key.ok
                  /\ OneLarger => key = CapacityError

\* C4 (amended): for a record that fits exactly with the minimum front
\* padding, generate succeeds when the padding size drawn is 8 and raises the
\* capacity error when it is 9..15; for a record one byte larger it raises
\* the capacity error whatever is drawn.
C4_Capacity ==
  pc # "start" => /\ (ExactFit /\ rnd.pad_size = 8) => key.ok
                  /\ (ExactFit /\ rnd.pad_size > 8) => key = CapacityError
                  /\ OneLarger => key = CapacityError

C4_Witness == pc = "generated" /\ ExactFit /\ rnd.pad_size = 8 /\ key.ok /\ config.bits = 256

NameBytes(l) == Len(Utf8Encode(l.name).val)
EmailBytes(l) == Len(Utf8Encode(l.email).val)
UserDataBytes(l) == IF l.user_data = None THEN 0 ELSE Len(l.user_data[1])
HardwareIdBytes(l) == IF l.hardware_id = None THEN 0 ELSE Len(l.hardware_id[1])
ProductCodeBytes(l) == Len(b64decode(l.product_code).val)

SizeErrors ==
  {"License->Name too long", "License->Email too long", "User data is too long",
   "Product code has invalid size"}

TextsFit(l) == NameBytes(l) <= 255 /\ EmailBytes(l) <= 255 /\ UserDataBytes(l) <= 255
SomeTextTooLong(l) == NameBytes(l) >= 256 \/ EmailBytes(l) >= 256 \/ UserDataBytes(l) >= 256
HardwareIdFits(l) == HardwareIdBytes(l) % 4 = 0 /\ HardwareIdBytes(l) <= 255
\* the running time limit is one packSerial accepts
LimitFits(l) == l.running_time_limit = None \/ l.running_time_limit[1] <= 255

\* C6 (as stated): with a valid hardware id, packSerial succeeds when name,
\* email and user_data are at most 255 bytes and product_code decodes to 8
\* bytes, and fails with a size error when one of the three is 256 bytes or
\* longer or product_code decodes to a length other than 8.
C6_AsStated ==
  (pc = "packed" /\ HardwareIdFits(lic) /\ LimitFits(lic))
  => /\ (TextsFit(lic) /\ ProductCodeBytes(lic) = 8) => packed.ok
     /\ (SomeTextTooLong(lic) \/ ProductCodeBytes(lic) # 8)
          => (~packed.ok /\ packed.err \in SizeErrors)

\* C6 (amended): with a valid hardware id, packSerial succeeds when name,
\* email and user_data are at most 255 bytes and product_code is empty or
\* decodes to 8 bytes, and fails with a size error when one of the three is
\* 256 bytes or longer or a non-empty product_code decodes to a length other
\* than 8.
C6_Sizes ==
  (pc = "packed" /\ HardwareIdFits(lic) /\ LimitFits(lic))
  => /\ (TextsFit(lic) /\ (lic.product_code = <<>> \/ ProductCodeBytes(lic) = 8))
          => packed.ok
     /\ (SomeTextTooLong(lic) \/ (lic.product_code # <<>> /\ ProductCodeBytes(lic) # 8))
          => (~packed.ok /\ packed.err \in SizeErrors)

C6_Witness ==
  /\ pc = "packed" /\ packed.ok
  /\ NameBytes(lic) = 255 /\ EmailBytes(lic) = 255 /\ UserDataBytes(lic) = 255
  /\ ProductCodeBytes(lic) = 8

\* where the hardware id block starts in the packed bytes (0-based)
HardwareIdOffset(l) == Len(PackVersion.val) + Len(PackName(l).val) + Len(PackEmail(l).val)
HardwareIdBlock(l) == <<4, HardwareIdBytes(l)>> \o l.hardware_id[1]
\* the fields other than the hardware id are ones packSerial accepts
RestFits(l) ==
  TextsFit(l) /\ LimitFits(l) /\ (l.product_code = <<>> \/ ProductCodeBytes(l) = 8)

\* C7 (as stated): a hardware id is packed as tag 4, length, bytes exactly
\* when its length is a multiple of 4; any other length raises the hardware
\* id error.
C7_AsStated ==
  (pc = "packed" /\ lic.hardware_id # None /\ RestFits(lic))
  => IF HardwareIdBytes(lic) % 4 = 0
     THEN /\ packed.ok
          /\ Slice(packed.val, HardwareIdOffset(lic),
                   HardwareIdOffset(lic) + 2 + HardwareIdBytes(lic)) = HardwareIdBlock(lic)
     ELSE packed = Err("Invalid HWID (not multiple of 4)")

\* C7 (amended): a non-empty hardware id shorter than 256 bytes is packed as
\* tag 4, length, bytes exactly when its length is a multiple of 4, and any
\* length that is not a multiple of 4 raises the hardware id error; an empty
\* hardware id is omitted, and one of 256 bytes or more whose length is a
\* multiple of 4 raises the ValueError of bytes([len]).
C7_HardwareId ==
  (pc = "packed" /\ lic.hardware_id # None /\ RestFits(lic))
  => CASE HardwareIdBytes(lic) % 4 # 0 ->
            packed = Err("Invalid HWID (not multiple of 4)")
       [] HardwareIdBytes(lic) = 0 ->
            packed.ok /\ packed.val = packSerial([lic EXCEPT !.hardware_id = None]).val
       [] HardwareIdBytes(lic) > 255 ->
            packed = Err("ValueError: bytes must be in range(0, 256)")
       [] OTHER ->
            /\ packed.ok
            /\ Slice(packed.val, HardwareIdOffset(lic),
                     HardwareIdOffset(lic) + 2 + HardwareIdBytes(lic)) = HardwareIdBlock(lic)

C7_Witness ==
  /\ pc = "packed" /\ packed.ok /\ HardwareIdBytes(lic) = 252 /\ NameBytes(lic) = 255
  /\ Slice(packed.val, 259, 261) = <<4, 252>>
(***************************************************************************)
(* Properties of unpackSerial on a changed buffer (specification           *)
(* TamperSpec).                                                            *)
(***************************************************************************)
CrcError == Err("Serial number CRC error.")

\* errors raised while the fields are read, before the checksum is compared
FieldErrors ==
  {"Serial number parsing error (chunk).", "IndexError", "UnicodeDecodeError",
   "Not enough data for expiration date", "Not enough data for max build date",
   "Not enough data for product code",
   "ValueError: year out of range", "ValueError: month must be in 1..12",
   "ValueError: day is out of range for month"}

\* C3 (as stated): changing one byte between the padding terminator and the
\* marker 255 makes unpackSerial fail with the checksum error.
C3_AsStated == pc = "unpacked tampered" => unpacked = CrcError

\* C3 (amended): changing one byte between the padding terminator and the
\* marker 255 makes unpackSerial fail; the failure is the checksum error, or
\* an error raised while the fields are read when the change breaks a tag, a
\* length, a date or a text.
C3_Tamper ==
  pc = "unpacked tampered"
  => /\ ~unpacked.ok
     /\ unpacked = CrcError \/ unpacked.err \in FieldErrors

C3_Witness ==
  /\ pc = "unpacked tampered" /\ unpacked = CrcError /\ config.bits = 512
  /\ FieldLoop(data, SpanStart(data), License).ok

(***************************************************************************)
(* Properties of ParseLicense on signed buffers of any content             *)
(* (specification ForgeSpec).                                              *)
(***************************************************************************)
\* the record the fields of the signed content describe
ForgedRecord == FieldLoop(packed.val \o <<255>>, 0, License).val[1]

\* C5: ParseLicense returns a record only if its version is 1 and its product
\* code is present and equal to the expected one; a key whose checksum
\* verifies but whose version is not 1 or whose product code differs from the
\* expected one is rejected.
C5_Checks ==
  pc = "parsed"
  => /\ parsed.ok => /\ parsed.val.version = 1
                     /\ parsed.val.product_code # <<>>
                     /\ parsed.val.product_code = config.product_code
     /\ (ForgedRecord.version # 1 \/ ForgedRecord.product_code # config.product_code)
          => ~parsed.ok

C5_Witness ==
  /\ pc = "parsed" /\ parsed = Err("Unsupported version.")
  /\ ForgedRecord.product_code = config.product_code

(***************************************************************************)
(* Properties of ParseLicense on formatted key texts (specification        *)
(* FormatSpec).                                                            *)
(***************************************************************************)
\* C10: inserting characters outside the base64 alphabet into a key text
\* does not change the outcome of ParseLicense, neither whether it succeeds
\* nor the error nor the fields returned.
C10_Formatting ==
  pc = "parsed"
  => parsed = ParseLicense(key.val, PublicText, config.modules, config.product_code,
                           config.bits)

C10_Witness ==
  /\ pc = "parsed" /\ parsed.ok /\ Len(serial) = Len(key.val) + MaxInsert
  /\ serial[1] = 233
(***************************************************************************)
(* Properties of the construction of a Config (specification ConfigSpec).  *)
(***************************************************************************)
\* the arguments are all non-empty and bits is a supported size
Accepted(a) ==
  /\ a.algorithm # <<>> /\ a.private # <<>> /\ a.modules # <<>> /\ a.product_code # <<>>
  /\ a.bits \in {128, 256, 512, 1024, 2048, 4096}

\* C11: the construction of a Config succeeds exactly when algorithm, private
\* key, modulus and product code are non-empty and bits is one of 128, 256,
\* 512, 1024, 2048, 4096, and fails with the configuration error otherwise;
\* the object holds the arguments, and no later generate or ParseLicense call
\* changes any of its fields.
C11_Construction ==
  /\ [](made # NoCall
        => /\ made.out.ok <=> Accepted(made.args)
           /\ made.out.ok => (made.out.val = made.args /\ config = made.args)
           /\ ~made.out.ok => (made.out = Err("Invalid configuration") /\ pc = "rejected"))
  /\ [][made # NoCall => config' = config]_vars

C11_Witness ==
  /\ pc = "parsed" /\ parsed.ok /\ made.out.ok /\ config = made.args
  /\ lic.product_code = config.product_code

\* the text decodes to exactly 8 bytes
ValidProductCode(c) == b64decode(c).ok /\ Len(b64decode(c).val) = 8
\* the text decodes to a positive integer
ValidNumber(t) == b64decode(t).ok /\ base10Encode(b64decode(t).val) # <<>>

C13_AsStated ==
  \A t \in DOMAIN calls :
    calls[t].at = "done"
    => /\ calls[t].key = generate(lic, calls[t].config, calls[t].rnd)[1]
       /\ calls[t].key.ok
          => ParseLicense(calls[t].key.val, PublicText, calls[t].config.modules,
                          calls[t].config.product_code, calls[t].config.bits).err
               # "Invalid product code."

(***************************************************************************)
(* What generate leaves behind in the objects it was given (specification  *)
(* Spec).                                                                  *)
(***************************************************************************)
\* C14 (as stated): generate leaves the License record and the Config
\* unchanged, whether it returns a key or fails.
C14_AsStated ==
  [][(pc = "start" /\ pc' = "generated") => (lic' = lic /\ config' = config)]_vars

\* C14 (amended): generate leaves the Config unchanged and every field of the
\* License record unchanged except product_code, which holds the product code
\* of the Config after the call, whether the call returned a key or failed.
C14_Frame ==
  [][(pc = "start" /\ pc' = "generated")
       => /\ lic' = [lic EXCEPT !.product_code = config.product_code]
          /\ config' = config]_vars

C14_Witness ==
  /\ pc = "generated" /\ key = CapacityError
  /\ lic.version = 7 /\ lic.product_code = config.product_code
  /\ lic.product_code # LicenseCaller.product_code

(***************************************************************************)
(* Properties of unpackSerial on a buffer cut short (specification         *)
(* TruncateSpec).                                                          *)
(***************************************************************************)
\* the buffer generate signed, of which data holds the first bytes
WholeBuffer == FinalSerial(WithChecksum(packSerial(lic).val), config.bits, rnd).val

\* bytes a field of a well-formed stream takes, its tag included
FieldSize(buf, i) ==
  CASE At(buf, i) \in {1, 6} -> 2
    [] At(buf, i) \in {2, 3, 4, 8} -> 2 + At(buf, i + 1)
    [] At(buf, i) \in {5, 9} -> 5
    [] At(buf, i) = 7 -> 9
    [] OTHER -> 0

\* 0-based offsets of the tags of the fields, from offset i up to the marker
RECURSIVE TagOffsets(_, _)
TagOffsets(buf, i) ==
  IF i >= Len(buf) \/ FieldSize(buf, i) = 0 THEN {}
  ELSE {i} \cup TagOffsets(buf, i + FieldSize(buf, i))

\* the cut falls inside a field: its tag is kept and some of its bytes are not
MidField ==
  \E o \in TagOffsets(WholeBuffer, SpanStart(WholeBuffer)) :
    o < Len(data) /\ Len(data) < o + FieldSize(WholeBuffer, o)

\* the cut removes the padding terminator
NoTerminator == Len(data) <= ScanPadding(WholeBuffer)

\* the errors unpackSerial raises for the structure of the stream
StructuralErrors ==
  {"Serial number parsing error (len).", "Serial number parsing error (chunk).",
   "Not enough data for expiration date", "Not enough data for max build date",
   "Not enough data for product code"}

\* C15: when the stream runs out of bytes in the middle of a field, or holds
\* no padding terminator, unpackSerial fails with a structural parse error,
\* which is not the checksum error.
C15_AsStated ==
  (pc = "unpacked truncated" /\ (MidField \/ NoTerminator))
  => /\ ~unpacked.ok
     /\ unpacked.err \in StructuralErrors

(***************************************************************************)
(* The layout of the output of packSerial (specification PackSpec).        *)
(***************************************************************************)
\* the tags of the fields of a packed record, in the order they are written
PackedTags(buf) == {At(buf, o) : o \in TagOffsets(buf, 0)}

\* the tags of the fields of a record that are neither absent nor empty
PresentTags(l) ==
  {1} \cup (IF l.name # <<>> THEN {2} ELSE {})
      \cup (IF l.email # <<>> THEN {3} ELSE {})
      \cup (IF l.hardware_id # None /\ l.hardware_id[1] # <<>> THEN {4} ELSE {})
      \cup (IF l.expiration # None THEN {5} ELSE {})
      \cup (IF l.running_time_limit # None /\ l.running_time_limit[1] > 0 THEN {6} ELSE {})
      \cup (IF l.product_code # <<>> THEN {7} ELSE {})
      \cup (IF l.user_data # None /\ l.user_data[1] # <<>> THEN {8} ELSE {})
      \cup (IF l.max_build # None THEN {9} ELSE {})

\* C16: the output of packSerial starts with the bytes 1, 1 and is never
\* empty; it consists of whole fields whose tags increase strictly (the fixed
\* order 2..9, each at most once), and the tags are those of the fields of
\* the record that are present: an absent or empty field contributes no byte.
C16_Layout ==
  (pc = "packed" /\ packed.ok)
  => /\ Len(packed.val) >= 2 /\ SubSeq(packed.val, 1, 2) = <<1, 1>>
     /\ \A o1, o2 \in TagOffsets(packed.val, 0) :
          o1 < o2 => At(packed.val, o1) < At(packed.val, o2)
     /\ \E o \in TagOffsets(packed.val, 0) : o + FieldSize(packed.val, o) = Len(packed.val)
     /\ PackedTags(packed.val) = PresentTags(lic)
     /\ Cardinality(TagOffsets(packed.val, 0)) = Cardinality(PresentTags(lic))

C16_Witness ==
  /\ pc = "packed" /\ packed.ok
  /\ PackedTags(packed.val) = 1..9

(***************************************************************************)
(* The checksum unpackSerial verifies (specification TamperSpec).          *)
(***************************************************************************)
\* 0-based offset of the first byte after the whole fields that start at i
RECURSIVE EndOfFields(_, _)
EndOfFields(buf, i) ==
  IF i >= Len(buf) \/ FieldSize(buf, i) = 0 THEN i
  ELSE EndOfFields(buf, i + FieldSize(buf, i))

\* the byte after the fields is the marker 255 and the 4 bytes after it are
\* the first 4 digest bytes of the span before it, in reverse order
MarkerVerifies(buf) ==
  LET start == ScanPadding(buf) + 1
      end == EndOfFields(buf, start)
      digest == sha1(Slice(buf, start, end))
  IN /\ end + 4 < Len(buf)
     /\ At(buf, end) = 255
     /\ <<At(buf, end + 1), At(buf, end + 2), At(buf, end + 3), At(buf, end + 4)>>
          = <<digest[4], digest[3], digest[2], digest[1]>>

\* C17: unpackSerial returns a record only if it read the marker 255 and the
\* 4 bytes after the marker are the byte-reversed first 4 bytes of the digest
\* of the span from the start offset up to the marker; and the buffer
\* generate assembled, unmodified, carries that checksum and is accepted.
C17_Checksum ==
  /\ (pc \in {"unpacked", "unpacked tampered"} /\ unpacked.ok) => MarkerVerifies(data)
  /\ pc = "unpacked" => (unpacked.ok /\ MarkerVerifies(data))

C17_Witness ==
  /\ pc = "unpacked" /\ unpacked.ok /\ config.bits = 512
  /\ MarkerVerifies(data) /\ unpacked.val.name = lic.name

(***************************************************************************)
(* The front padding of the buffer generate signs (specification Spec).    *)
(***************************************************************************)
\* generate got as far as assembling the buffer
Assembled == packSerial(lic).ok /\ Needed <= config.bits \div 8

\* C18: the buffer generate assembles starts with the bytes 0, 2, followed
\* by 8 to 15 non-zero bytes and one zero byte; the first zero byte at an
\* index of 1 or more is that terminator, and the start offset unpackSerial
\* derives from it is the first byte of the packed record, the version tag.
C18_Padding ==
  (pc = "generated" /\ Assembled)
  => Let(WholeBuffer, LAMBDA buf :
       \E k \in 8..15 :
         /\ Len(buf) = config.bits \div 8
         /\ At(buf, 0) = 0 /\ At(buf, 1) = 2
         /\ \A j \in 2..(k + 1) : At(buf, j) # 0
         /\ At(buf, k + 2) = 0
         /\ ScanPadding(buf) = k + 2
         /\ At(buf, k + 3) = 1
         /\ Slice(buf, k + 3, k + 3 + Len(packSerial(lic).val)) = packSerial(lic).val)

C18_Witness ==
  /\ pc = "generated" /\ key.ok /\ rnd.pad_size = 15 /\ rnd.front = <<254, 7, 128>>
  /\ ScanPadding(WholeBuffer) = 17

(***************************************************************************)
(* Unknown tags (specification TamperSpec).                                *)
(***************************************************************************)
\* 0-based offsets of the tags of the buffer generate signed whose byte was
\* changed into a value that is no tag
UnknownTags ==
  Let(WholeBuffer, LAMBDA buf :
    {o \in TagOffsets(buf, SpanStart(buf)) :
       At(data, o) # At(buf, o) /\ At(data, o) \notin (1..9) \cup {255}})

\* C19: when unpackSerial reads, in tag position, a byte other than 1 to 9
\* or 255, it fails with the structural parse error of the unknown tag and
\* returns no record, whatever fields it read before.
C19_UnknownTag ==
  (pc = "unpacked tampered" /\ UnknownTags # {})
  => unpacked = Err("Serial number parsing error (chunk).")

C19_Witness ==
  /\ pc = "unpacked tampered" /\ unpacked = Err("Serial number parsing error (chunk).")
  /\ \E o \in UnknownTags : At(WholeBuffer, o) = 9 /\ At(data, o) = 128

(***************************************************************************)
(* The length check of ParseLicense (specification LengthSpec).            *)
(***************************************************************************)
\* number of bytes the submitted text decodes to
DecodedLength == Len(b64decode(filterSerial(serial)).val)

\* C20: ParseLicense fails with the length error exactly when the decoded
\* key is shorter than bits/8 - 6 bytes or longer than bits/8 + 6 bytes, and
\* does so before the public-key step (a modulus that step refuses is not
\* reported); a decoded key of a length inside the window reaches the
\* public-key step, whose error or result decides the outcome.
C20_Length ==
  pc = "parsed"
  => IF DecodedLength < (config.bits \div 8) - 6 \/ DecodedLength > (config.bits \div 8) + 6
     THEN parsed = Err("Invalid length.")
     ELSE /\ parsed.err # "Invalid length."
          /\ Let(decodeSerial(b64decode(filterSerial(serial)).val, PublicText, config.modules,
                              config.bits \div 8),
                 LAMBDA decoded :
                   /\ ~decoded.ok => parsed = decoded
                   /\ (decoded.ok /\ ~unpackSerial(decoded.val).ok)
                        => parsed = unpackSerial(decoded.val))

C20_Witness ==
  /\ pc = "parsed" /\ parsed = Err("Invalid length.")
  /\ DecodedLength = (config.bits \div 8) - 7
  /\ ~decodeSerial(b64decode(filterSerial(serial)).val, PublicText, config.modules,
                   config.bits \div 8).ok

(***************************************************************************)
(* The messages of the checks ParseLicense makes on an unpacked record     *)
(* (specification ForgeSpec).                                              *)
(***************************************************************************)
\* the version of the signed record is absent (read as 0) or not 1
VersionViolated == ForgedRecord.version # 1
\* the product code of the signed record is absent or not the expected one
ProductCodeViolated ==
  ForgedRecord.product_code = <<>> \/ ForgedRecord.product_code # config.product_code

\* the signed content fits the key, so that the key unpacks and its checksum
\* verifies
Unpacks == FinalSerial(WithChecksum(packed.val), config.bits, rnd).ok

\* C21: for a key that unpacks with a valid checksum, the message of
\* ParseLicense tells which condition is violated: the version message is
\* given only for a version violation, the two product code messages only
\* for a product code violation, a key that violates one of the conditions
\* gets the message of that condition, and no message serves both.
C21_Messages ==
  (pc = "parsed" /\ Unpacks)
  => /\ (VersionViolated \/ ProductCodeViolated)
          <=> parsed.err \in {"Unsupported version.", "Incomplete serial number.",
                              "Invalid product code."}
     /\ parsed.err = "Unsupported version." => VersionViolated
     /\ parsed.err \in {"Incomplete serial number.", "Invalid product code."}
          => ProductCodeViolated
     /\ (VersionViolated /\ ~ProductCodeViolated) => parsed.err = "Unsupported version."
     /\ (ProductCodeViolated /\ ~VersionViolated)
          => parsed.err \in {"Incomplete serial number.", "Invalid product code."}

C21_Witness ==
  /\ pc = "parsed" /\ Unpacks /\ parsed = Err("Invalid product code.")
  /\ ForgedRecord.version = 1 /\ ForgedRecord.product_code # <<>>

(***************************************************************************)
(* The running time limit field of packSerial (specification PackSpec).    *)
(***************************************************************************)
\* the running time limit of the record is an integer outside 0..255
LimitOutOfRange ==
  /\ lic.running_time_limit # None
  /\ (lic.running_time_limit[1] > 255 \/ lic.running_time_limit[1] < 0)

\* the packed record holds tag 6 followed by the byte v
HoldsLimit(buf, v) ==
  \E o \in TagOffsets(buf, 0) : At(buf, o) = 6 /\ At(buf, o + 1) = v

\* C22 as stated: packSerial fails for every running time limit greater than
\* 255 and for every negative one.
C22_AsStated == (pc = "packed" /\ LimitOutOfRange) => ~packed.ok

\* C22: packSerial writes tag 6 followed by one byte holding the value exactly
\* when the running time limit is in 1..255; it omits the field when the limit
\* is absent, 0 or negative, and the call does not fail for that; it fails for
\* every value greater than 255.
C22_Limit ==
  pc = "packed"
  => Let(lic.running_time_limit, LAMBDA limit :
       /\ (limit # None /\ limit[1] > 255) => ~packed.ok
       /\ packed.ok
            => /\ 6 \in PackedTags(packed.val) <=> (limit # None /\ limit[1] \in 1..255)
               /\ 6 \in PackedTags(packed.val) => HoldsLimit(packed.val, limit[1])
       /\ (limit = None \/ limit[1] <= 0)
            => /\ packed.err # "Running time limit is incorrect"
               /\ packed = packSerial([lic EXCEPT !.running_time_limit = None]))

C22_Witness ==
  /\ pc = "packed" /\ packed.ok
  /\ lic.running_time_limit # None /\ lic.running_time_limit[1] < 0
  /\ ~(6 \in PackedTags(packed.val))

(***************************************************************************)
(* powmod and the operations that call it (specification ConfigSpec).      *)
(***************************************************************************)
\* a base64 text whose bytes are the integer 0
DecodesToZero(text) == b64decode(text).ok /\ base10Encode(b64decode(text).val) = <<>>

\* b^e modulo p, by the definition of the power: b^0 = 1, b^(2k) = (b^k)^2,
\* b^(k+1) = b * b^k
RECURSIVE Power(_, _, _)
Power(b, e, p) ==
  IF e = 0 THEN 1 % p
  ELSE IF e % 2 = 0 THEN Let(Power(b, e \div 2, p), LAMBDA h : (h * h) % p)
  ELSE (b * Power(b, e - 1, p)) % p

\* the digits of a number, least significant first, in an array of width w
Digits(x, w) == MulSmall(ToLE(base10Encode(x), Width4(w)), 1)

\* r is base^e modulo the 256-bit modulus of the model: it is below the
\* modulus and congruent to base^e modulo each of its prime factors
IsPower(r, base, e) ==
  /\ Len(base10Encode(r)) <= Len(Modulus256)
  /\ ~Geq(Digits(r, Len(Modulus256)), Digits(Modulus256, Len(Modulus256)))
  /\ \A i \in 1..Len(Primes256) :
       ModSmall(Digits(r, Len(r)), Primes256[i])
         = Power(ModSmall(Digits(base, Len(base)), Primes256[i]), e, Primes256[i])

\* a key text of the length ParseLicense expects
AnyKey == b64encode(Fill(config.bits \div 8, 1))

\* C23: powmod fails when the modulus or the exponent is zero: generate fails
\* when the private exponent or the modulus of the Config decodes to 0, with
\* the error of powmod when it gets as far as calling it; ParseLicense fails
\* with the error of powmod when the modulus or the public exponent decodes
\* to 0; and with a non-zero exponent and modulus the number generate signs
\* with is base^exponent mod modulus.
C23_Powmod ==
  pc = "generated"
  => /\ (DecodesToZero(config.private) \/ DecodesToZero(config.modules))
          => /\ ~key.ok
             /\ (Assembled /\ b64decode(config.private).ok /\ b64decode(config.modules).ok)
                  => key.err = (IF DecodesToZero(config.modules) THEN "Modulus is zero."
                                ELSE "Exponent is zero.")
     /\ DecodesToZero(config.modules)
          => ParseLicense(AnyKey, PublicText, config.modules, config.product_code,
                          config.bits) = Err("Modulus is zero.")
     /\ b64decode(config.modules).val = Modulus256
          => ParseLicense(AnyKey, <<65, 65, 65, 65>>, config.modules, config.product_code,
                          config.bits) = Err("Exponent is zero.")
     /\ key.ok
          => IsPower(b64decode(key.val).val, WholeBuffer,
                     BigToInt(b64decode(config.private).val, 1, 0))

C23_Witness ==
  /\ pc = "generated" /\ Assembled
  /\ DecodesToZero(config.private) /\ ~DecodesToZero(config.modules)
  /\ key = Err("Exponent is zero.")

(***************************************************************************)
(* generate and the capacity of the key (specification Spec).              *)
(***************************************************************************)
\* C25 as stated: with bits = 128 generate fails with the capacity error for
\* every record and every padding.
C25_AsStated == (pc = "generated" /\ config.bits = 128) => key = CapacityError

\* C25: with bits = 128 generate fails for every record and every padding:
\* with the error of packSerial for a record packSerial rejects, and with
\* the capacity error for every other record, whose content is 27 bytes or
\* more (11 or more of front padding, 2 of version, 9 of product code, 5 of
\* marker and checksum) and exceeds the 16 bytes of the key.
C25_Capacity ==
  (pc = "generated" /\ config.bits = 128)
  => Let(packSerial(lic), LAMBDA record :
       /\ ~key.ok
       /\ ~record.ok => key = record
       /\ record.ok => /\ key = CapacityError
                       /\ Len(PaddingFront(rnd)) >= 11
                       /\ Len(record.val) >= 2 + 9
                       /\ Needed >= 27)

C25_Witness ==
  /\ pc = "generated" /\ config.bits = 128
  /\ key = CapacityError /\ Needed = 27

\* the padding choices a call is compared with: the smallest and the largest
\* count and the count drawn, with each pattern of bytes
ComparedDraws == {r \in RandomDraws : r.pad_size \in {8, rnd.pad_size, 15}}

SubmittedBytes == b64decode(filterSerial(serial))
\* the text decodes to a number of bytes outside the window around bits/8
OutsideWindow ==
  \/ Len(SubmittedBytes.val) < (config.bits \div 8) - 6
  \/ Len(SubmittedBytes.val) > (config.bits \div 8) + 6
\* the result of the public-key step
PublicStep == decodeSerial(SubmittedBytes.val, PublicText, config.modules, config.bits \div 8)

\* C27: ParseLicense reports the first check that fails, in the order base64
\* decoding, length window, public-key step, unpackSerial, product code
\* present, version equal to 1, product code equal to the expected one; a
\* key whose version is not 1 and whose product code differs is reported as
\* a version error.
C27_Order ==
  pc = "parsed"
  => IF ~SubmittedBytes.ok THEN parsed = Err("Invalid serial number encoding.")
     ELSE IF OutsideWindow THEN parsed = Err("Invalid length.")
     ELSE Let(PublicStep, LAMBDA decoded :
       IF ~decoded.ok THEN parsed = decoded
       ELSE Let(unpackSerial(decoded.val), LAMBDA record :
         IF ~record.ok THEN parsed = record
         ELSE IF record.val.product_code = <<>>
           THEN parsed = Err("Incomplete serial number.")
         ELSE IF record.val.version # 1 THEN parsed = Err("Unsupported version.")
         ELSE IF record.val.product_code # config.product_code
           THEN parsed = Err("Invalid product code.")
         ELSE parsed = record))

\* a key whose version is not 1 and whose product code is not the expected
\* one, reported as a version error
C27_Witness ==
  /\ pc = "parsed" /\ parsed = Err("Unsupported version.")
  /\ SubmittedBytes.ok /\ ~OutsideWindow /\ PublicStep.ok
  /\ unpackSerial(PublicStep.val).ok
  /\ unpackSerial(PublicStep.val).val.version # 1
  /\ unpackSerial(PublicStep.val).val.product_code # <<>>
  /\ unpackSerial(PublicStep.val).val.product_code # config.product_code

(***************************************************************************)
(* The fields unpackSerial accepts (specification FieldsSpec).             *)
(***************************************************************************)
\* 0-based offset of the last field of the tag in the assembled content
LastOffset(tag) ==
  Max({o \in TagOffsets(packed.val \o <<255>>, 0) : At(packed.val, o) = tag})

\* the value the field at offset o encodes, as the record holds it
ValueAt(o) ==
  Let(packed.val, LAMBDA c :
    CASE At(c, o) = 1 -> At(c, o + 1)
      [] At(c, o) \in {2, 3} -> Slice(c, o + 2, o + 2 + At(c, o + 1))
      [] At(c, o) \in {4, 8} -> Some(Slice(c, o + 2, o + 2 + At(c, o + 1)))
      [] At(c, o) \in {5, 9} -> Some(<<At(c, o + 3) + (256 * At(c, o + 4)), At(c, o + 2),
                                       At(c, o + 1), 0>>)
      [] At(c, o) = 6 -> Some(At(c, o + 1))
      [] At(c, o) = 7 -> b64encode(Slice(c, o + 1, o + 9)))

\* the field of a record that a tag fills
FieldOf(l, tag) ==
  CASE tag = 1 -> l.version
    [] tag = 2 -> l.name
    [] tag = 3 -> l.email
    [] tag = 4 -> l.hardware_id
    [] tag = 5 -> l.expiration
    [] tag = 6 -> l.running_time_limit
    [] tag = 7 -> l.product_code
    [] tag = 8 -> l.user_data
    [] tag = 9 -> l.max_build

\* the tags of the content are not in the order packSerial writes them, or
\* one occurs twice
OutOfOrder ==
  \E o1, o2 \in TagOffsets(packed.val \o <<255>>, 0) :
    o1 < o2 /\ At(packed.val, o1) >= At(packed.val, o2)

\* C28: unpackSerial accepts before the marker the fields of tags 1 to 9 in
\* any order and any number of times: it returns a record in which each field
\* has the value of the last field of its tag, or the value of a new License
\* when the tag does not occur, whatever bytes follow the 4 checksum bytes.
C28_Fields ==
  pc = "unpacked"
  => /\ unpacked.ok
     /\ \A tag \in 1..9 :
          FieldOf(unpacked.val, tag)
            = IF tag \in PackedTags(packed.val \o <<255>>) THEN ValueAt(LastOffset(tag))
              ELSE FieldOf(License, tag)

C28_Witness ==
  /\ pc = "unpacked" /\ unpacked.ok /\ OutOfOrder
  /\ Len(data) > Len(PaddingFront(rnd)) + Len(packed.val) + 5
  /\ packed.val = <<1, 2, 1, 1>> /\ unpacked.val.version = 1

(***************************************************************************)
(* Termination of unpackSerial (specification StepSpec).                   *)
(***************************************************************************)
\* an iteration of the padding scan or of the field loop that does not raise
\* leaves the read index larger than it found it
IndexGrows ==
  (pc \in {"scan", "fields"} /\ frame' # frame) => frame'.i > frame.i

\* C30: unpackSerial terminates on every byte string: each iteration of the
\* padding scan and of the field loop strictly increases the read index, and
\* a call that was started ends, by returning a record or by raising an
\* error, with the outcome of unpackSerial.
C30_Terminates ==
  /\ [][IndexGrows]_vars
  /\ (pc = "scan") ~> (pc = "unpacked")
  /\ [](pc = "unpacked" => unpacked = unpackSerial(data))

C30_Witness ==
  /\ pc = "unpacked" /\ unpacked.ok
  /\ frame.i > frame.start + 4 /\ frame.lic.name = <<65>>

(***************************************************************************)
(* The automation window: threads and the running flag.                    *)
(***************************************************************************)
\* the AutomationThreads that are alive and whose stop event is unset
LiveUnset ==
  {t \in 1..Len(app.threads) : app.threads[t].at # "done" /\ ~app.threads[t].stop}

\* C24: under every interleaving of toggle_automation, stop_automation (also
\* from the hotkey thread) and on_automation_stop, at most one
\* AutomationThread with an unset stop event is alive, and none is whenever
\* the running flag is False
C24_AsStated ==
  pc = "app" =>
    /\ Cardinality(LiveUnset) <= 1
    /\ ~app.running => LiveUnset = {}

Started(t) == pc = "app" /\ t \in 1..Len(app.threads)

\* C29: once the stop event of an AutomationThread is set, the thread
\* eventually leaves its loop, whichever statement of the loop it is at
\* (the test of the loop, the window lookup, the foreground call, the
\* position loop, the interval wait), and emits 'stopped' exactly once: it
\* never emits twice, and once it has emitted it executes nothing more
C29_Stops ==
  /\ \A t \in 1..MaxThreads :
       (Started(t) /\ app.threads[t].stop)
         ~> (Started(t) /\ app.threads[t].at = "done" /\ app.threads[t].emitted = 1)
  /\ [](\A t \in 1..MaxThreads :
         Started(t) => /\ app.threads[t].emitted <= 1
                       /\ app.threads[t].emitted = 1 <=> app.threads[t].at = "done")
  /\ [][\A t \in 1..MaxThreads :
          (Started(t) /\ app.threads[t].at = "done") =>
            /\ app'.threads[t].at = "done"
            /\ app'.threads[t].emitted = app.threads[t].emitted]_vars

\* a thread that was stopped while a newer one runs has left its loop and
\* emitted once; the newer one was stopped inside its position loop
C29_Witness ==
  /\ pc = "app" /\ Len(app.threads) = 2
  /\ app.threads[1].stop /\ app.threads[1].at = "done" /\ app.threads[1].emitted = 1
  /\ app.threads[2].stop /\ app.threads[2].at = "positions" /\ app.threads[2].k = 0

====
